---- MODULE Spec2Model ----
(***************************************************************************)
(* Astra / Trio three-party computation over Z/2^K: the preprocessing      *)
(* parties 0,1,2 (AstraPrepProtocol, TrioPrepProtocol) write a tape per    *)
(* online party, the online parties 1,2 (Astra, Trio) replay the same      *)
(* program against the tapes.  Shares are pairs <<limb0, limb1>>.          *)
(***************************************************************************)
EXTENDS Integers, Sequences, FiniteSets, TLC

VARIABLES
    proto,      \* "astra" or "trio": the share type the machine is built for
    prog,       \* the program both phases run: a sequence of operations
    ppc,        \* number of operations the preprocessing parties have run
    pc,         \* number of operations the online parties have run
    prepS,      \* prepS[p][r]: register r of preprocessing party p (0..2)
    onS,        \* onS[q][r]: register r of online party with astra_num q (1..2)
    prepB,      \* prepB[p][r]: bit register r of preprocessing party p
    onB,        \* onB[q][r]: bit register r of online party q
    tape,       \* tape[q]: records stored by preprocessing party q (Protocol-P<q>)
    stored,     \* stored[q][i]: the operation that stored record i of tape[q]
    rd,         \* rd[q]: number of records online party q has read from tape[q]
    readlog,    \* readlog[q]: the records online party q has read, with the
                \* operation that read each
    prngSeed,   \* prngSeed[p][g]: <<seed of shared_prngs[0], seed of shared_prngs[1]>>
    prngPos,    \* prngPos[p][g]: values drawn so far from each of the two
    rnd,        \* rnd[s]: the output stream of the generator seeded with s
    wire,       \* wire[q]: what online party q sent in its last exchange
    sent,       \* sent[q]: number of messages online party q has sent so far
    pwire,      \* the messages party 0 sent in the last preprocessing operation
    inputs,     \* inputs[q]: the values online party q has fed to its inputs so far
    opened,     \* opened[q]: clear values online party q got from the last opening
    err,        \* err[q]: "" or the fatal error online party q stopped with
    outputs,    \* the output file of online party 1: the vectors it has synced
    view0,      \* what party 0 has received from other parties, in order
    signedShift,\* whether >> of the clear type SignedZ2<K> extends the sign
    files,      \* the tape files that protocol instances have opened
    sock,       \* the bytes in flight on a socket, oldest first
    disk,       \* the bytes of a file from its read head on
    framed,     \* the buffers sent (net) and written to the file (file)
    unframed,   \* the buffers received and read back, and the reader's error
    place,      \* place[proc]: the instructions and I/O calls process proc has done
    fifo,       \* fifo[f]: the ends of named pipe f and the records inside it
    net,        \* net[<<a, b>>]: the messages in flight from process a to b
    stream,     \* an octetStream: its bytes, read head and two bit buffers
    twin,       \* a newly constructed octetStream given the writes after a reset
    written,    \* the store_bits and append calls made on stream, in order
    readback,   \* what the matching get_bits and byte reads returned, in order
    stage       \* "write", "reset" (after a reset), "read" or "failed"

\* the files, sockets and buffers below the protocols
ioVars == <<files, sock, disk, framed, unframed>>
\* the five processes of a streaming run and what connects them
streamVars == <<place, fifo, net>>
\* one octetStream under a sequence of calls
bitVars == <<stream, twin, written, readback, stage>>
\* the parties' protocol state
machineVars == <<proto, prog, ppc, pc, prepS, onS, prepB, onB, tape, stored, rd,
                 readlog, prngSeed, prngPos, rnd, wire, sent, pwire, inputs, opened,
                 err, outputs, view0, signedShift>>

vars == <<proto, prog, ppc, pc, prepS, onS, prepB, onB, tape, stored, rd, readlog,
          prngSeed, prngPos, rnd, wire, sent, pwire, inputs, opened, err, outputs,
          view0, signedShift, files, sock, disk, framed, unframed, place, fifo, net,
          stream, twin, written, readback, stage>>

----------------------------------------------------------------------------
(* Bounds of the model *)

K == 4
NReg == 3
\* OnlineOptions::trunc_error, the statistical security of a truncation
TruncError == 2

Mod == 2^K
Ring == 0..(Mod - 1)
Regs == 1..NReg
PrepParties == 0..2
OnlineParties == 1..2

\* values the generators' outputs and the parties' inputs are drawn from
RandVals == {1, Mod - 2}
InputVals == {1, 2, Mod - 1}
\* inputs of a truncation, within 2^(K - TruncError) of zero
\* what an unchecked read past the end of a buffer may find
JunkVals == {0, Mod - 1}
TruncVals == {0, 1, 2, Mod - 1}

----------------------------------------------------------------------------
(* Z2<K> arithmetic *)

Add(a, b) == (a + b) % Mod
Sub(a, b) == (a - b) % Mod
Mul(a, b) == (a * b) % Mod
Neg(a) == (0 - a) % Mod
Shr(a, n) == a \div (2^n)
\* the value of a as a two's-complement number, and the shift that keeps it
Signed(a) == IF a >= Mod \div 2 THEN a - Mod ELSE a
\* msb() and cheap_lshift of the clear type
Msb(a) == a \div (2^(K - 1))
Shl(a, n) == (a * (2^n)) % Mod
SignedShr(a, n) == (Signed(a) \div (2^n)) % Mod
\* operator>> of the clear type
RightShift(a, n) == IF signedShift THEN SignedShr(a, n) ELSE Shr(a, n)

\* addition of BitVec, the clear type of the bit registers
RECURSIVE Xor(_, _)
Xor(a, b) ==
    IF a = 0 /\ b = 0 THEN 0
    ELSE ((a + b) % 2) + 2 * Xor(a \div 2, b \div 2)

GetBit(v, i) == (v \div (2^i)) % 2

\* + and - of the clear type of a register bank
TAdd(bin, a, b) == IF bin THEN Xor(a, b) ELSE Add(a, b)
TSub(bin, a, b) == IF bin THEN Xor(a, b) ELSE Sub(a, b)

RECURSIVE SumSeq(_)
SumSeq(s) == IF s = <<>> THEN 0 ELSE Add(Head(s), SumSeq(Tail(s)))

RECURSIVE Flatten(_)
Flatten(ss) == IF ss = <<>> THEN <<>> ELSE Head(ss) \o Flatten(Tail(ss))

----------------------------------------------------------------------------
(* FixedVec<T, 2> and the share types *)

Zero == <<0, 0>>
\* a faulty variant: only the first limb is multiplied
ShareScale_FirstLimb(x, c) == <<Mul(x[1], c), x[2]>>

\* operator+, operator- and operator* by a clear value of FixedVec<T, 2>
ShareAdd(x, y) == <<Add(x[1], y[1]), Add(x[2], y[2])>>
ShareSub(x, y) == <<Sub(x[1], y[1]), Sub(x[2], y[2])>>
ShareScale(x, c) == <<Mul(x[1], c), Mul(x[2], c)>>
Sum(x) == Add(x[1], x[2])

M(x) == x[1]
NegLambda(x) == x[2]
Lambda(x) == Neg(NegLambda(x))
SetM(x, v) == <<v, x[2]>>
SetNegLambda(x, v) == <<x[1], v>>

\* a faulty variant: the value goes to both limbs
AstraShare_constant_BothLimbs(value, my_num) == <<value, value>>
\* a faulty variant: only the party with my_num = 0 sets the value
AstraShare_constant_FirstParty(value, my_num) ==
    IF my_num = 0 THEN <<value, 0>> ELSE <<0, 0>>

\* AstraShare::constant, inherited by TrioShare: res.m(my_num + 1) = value,
\* m(int) being limb 0 whatever its argument
AstraShare_constant(value, my_num) == SetM(Zero, value)
\* AstraPrepShare::constant, inherited by TrioPrepShare: return {}
AstraPrepShare_constant(value, my_num) == Zero

AstraShare_local_mul_P1(x, y) ==
    Add(Mul(M(x), NegLambda(y)), Mul(M(y), NegLambda(x)))
AstraShare_local_mul_P2(x, y) ==
    Add(Mul(M(x), M(y)), AstraShare_local_mul_P1(x, y))
AstraPrepShare_local_mul_P0(x, y) == Mul(Sum(x), Sum(y))

TrioShare_local_mul_P1(x, y) ==
    Add(Mul(M(x), Lambda(y)), Mul(M(y), Lambda(x)))
TrioShare_local_mul_P2(x, y) == Mul(M(x), M(y))
TrioPrepShare_local_mul_P0(x, y) ==
    Sub(Mul(x[2], y[2]), Mul(Sub(x[1], x[2]), Sub(y[1], y[2])))

\* local_mul_P<i> of the share type of preprocessing party i
PrepLocalMul(pr, i, x, y) ==
    IF pr = "astra"
    THEN (IF i = 2 THEN 0 ELSE AstraPrepShare_local_mul_P0(x, y))
    ELSE (IF i = 0 THEN TrioPrepShare_local_mul_P0(x, y) ELSE 0)

\* local_mul_P<q> of the share type of the online party with astra_num q
OnlineLocalMul(pr, q, x, y) ==
    IF pr = "astra"
    THEN (IF q = 1 THEN AstraShare_local_mul_P1(x, y)
                   ELSE AstraShare_local_mul_P2(x, y))
    ELSE (IF q = 1 THEN TrioShare_local_mul_P1(x, y)
                   ELSE TrioShare_local_mul_P2(x, y))

AstraShare_common_m(x) == M(x)
TrioShare_common_m(x) == Sub(M(x), NegLambda(x))
CommonM(pr, x) ==
    IF pr = "astra" THEN AstraShare_common_m(x) ELSE TrioShare_common_m(x)

AstraShare_set_common_m(x, v) == SetM(x, v)
TrioShare_set_common_m(x, v) == <<Add(v, x[2]), x[2]>>
SetCommonM(pr, x, v) ==
    IF pr = "astra" THEN AstraShare_set_common_m(x, v)
                    ELSE TrioShare_set_common_m(x, v)

TrioShare_from_rep3(x) == <<Add(x[1], x[2]), x[2]>>
FromRep3(pr, x) == IF pr = "astra" THEN x ELSE TrioShare_from_rep3(x)

----------------------------------------------------------------------------
(* ReplicatedBase: the correlated generators *)

\* generator sets of a preprocessing party: 0 prng_protocol,
\* 1 prng_protocol_for_input0, 2 the one inside unsplit_input
Gens == 0..2
Seeds == 0..8

\* the name of the fresh seed shared_prngs[0].ReSeed() gives party p
SeedOf(p, g) == 3 * g + p

\* a faulty variant: the messages travel the other way round
PassAround_Backwards(msgs, offset) ==
    [p \in PrepParties |-> msgs[(p + offset) % 3]]

\* P.pass_around(os, offset): party p sends to p + offset and receives
\* what party p - offset sent
PassAround(msgs, offset) == [p \in PrepParties |-> msgs[(p - offset) % 3]]

\* <<seed of shared_prngs[0], seed of shared_prngs[1]>> of every party
ReplicatedBase(g) ==
    LET own == [p \in PrepParties |-> SeedOf(p, g)]
        got == PassAround(own, 1)
    IN [p \in PrepParties |-> <<own[p], got[p]>>]

SetMax(S) == CHOOSE m \in S : \A n \in S : n <= m

NoDraws == [p \in PrepParties |-> [g \in Gens |-> <<0, 0>>]]
\* draw counts of an operation that only uses generator set g
DrawsOf(g, c0, c1, c2) ==
    [p \in PrepParties |-> [h \in Gens |->
        IF h # g THEN <<0, 0>> ELSE IF p = 0 THEN c0 ELSE IF p = 1 THEN c1 ELSE c2]]

\* how long the stream of seed s must be once every party drew cnt more
Need(cnt, s) ==
    SetMax({Len(rnd[s])} \cup
           {prngPos[p][g][j] + cnt[p][g][j] :
               <<p, g, j>> \in {t \in PrepParties \X Gens \X (1..2) :
                                  prngSeed[t[1]][t[2]][t[3]] = s}})

\* <<outputs of seed 0 still to be fixed, ..., of seed s - 1>>
RECURSIVE FreshUpTo(_, _)
FreshUpTo(cnt, s) ==
    IF s = 0 THEN <<>>
    ELSE Append(FreshUpTo(cnt, s - 1), Need(cnt, s - 1) - Len(rnd[s - 1]))

\* <<0, c[1], c[1] + c[2], ...>>
RECURSIVE PrefixSums(_, _)
PrefixSums(c, k) ==
    IF k = 0 THEN <<0>>
    ELSE LET before == PrefixSums(c, k - 1)
         IN Append(before, before[k] + c[k])

\* every party draws cnt values: outputs not yet fixed are chosen now
Draw(cnt) ==
    /\ \E fresh \in {FreshUpTo(cnt, 9)} :
          \E before \in {PrefixSums(fresh, 9)} :
             \E f \in [1..before[10] -> RandVals] :
                rnd' = [s \in Seeds |-> rnd[s] \o
                           [i \in 1..fresh[s + 1] |-> f[before[s + 1] + i]]]
    /\ prngPos' = [p \in PrepParties |-> [g \in Gens |->
                         <<prngPos[p][g][1] + cnt[p][g][1],
                           prngPos[p][g][2] + cnt[p][g][2]>>]]

\* the n-th value party p gets from shared_prngs[j] of set g in this step
Nxt(p, g, j, n) == rnd'[prngSeed[p][g][j + 1]][prngPos[p][g][j + 1] + n]

\* the values party p has drawn from shared_prngs[j] of set g so far
Stream(p, g, j) ==
    SubSeq(rnd[prngSeed[p][g][j + 1]], 1, prngPos[p][g][j + 1])

----------------------------------------------------------------------------
(* Programs and the initial state *)

\* a round as each participant has prepared it: the preprocessing parties
\* the batch (dots, pairs), online party q the batch on[q]
RoundOpOf(dots, pairs, dst, on) ==
    [kind |-> "round", dots |-> dots, pairs |-> pairs, dst |-> dst, on |-> on]
Batch(dots, pairs) == [dots |-> dots, pairs |-> pairs]
\* a round that all participants have prepared alike
RoundOp(dots, pairs, dst) ==
    RoundOpOf(dots, pairs, dst, <<Batch(dots, pairs), Batch(dots, pairs)>>)
\* n1 values of online party 1 and n2 of online party 2, drawn from vals
InputOpFrom(n1, n2, dst, vals) ==
    [kind |-> "input", n |-> <<n1, n2>>, dst |-> dst, vals |-> vals]
InputOp(n1, n2, dst) == InputOpFrom(n1, n2, dst, InputVals)
\* an input round of the bit registers
BitInputOp(n1, n2, dst) ==
    [kind |-> "binput", n |-> <<n1, n2>>, dst |-> dst, vals |-> Ring]
\* bits 0 .. n - 1 of bit register src to registers dst .. dst + n - 1
Unsplit1Op(src, n, dst) == [kind |-> "unsplit1", src |-> src, n |-> n, dst |-> dst]
\* the same bits to the register pairs (dst, dst2), (dst + 1, dst2 + 1), ...
UnsplitOp(src, n, dst, dst2) ==
    [kind |-> "unsplit", src |-> src, n |-> n, dst |-> dst, dst2 |-> dst2]
OpenOp(regs) == [kind |-> "open", regs |-> regs]
\* sync of the clear values of the last opening
SyncOp == [kind |-> "sync"]
\* trunc_pr: every tuple shifts size registers from src of k bits by m to dst
TruncTuple(dst, src, k, m) == [dst |-> dst, src |-> src, k |-> k, m |-> m]
TruncOp(tuples, size) == [kind |-> "trunc", tuples |-> tuples, size |-> size]
RandomOp(dst) == [kind |-> "random", dst |-> dst]
\* size shares of n random bits per limb
RandomsOp(dst, size, n) == [kind |-> "randoms", dst |-> dst, size |-> size, n |-> n]

\* operations every party runs on its own shares alone: the sum of two
\* registers, a register times a clear value, and a clear constant
AddOp(a, b, dst) == [kind |-> "add", a |-> a, b |-> b, dst |-> dst]
ScaleOp(a, c, dst) == [kind |-> "scale", a |-> a, c |-> c, dst |-> dst]
ConstOp(c, dst) == [kind |-> "const", c |-> c, dst |-> dst]
LocalKinds == {"add", "scale", "const"}

\* registers dst, dst + 1, ... take vals
Put(regs, dst, vals) ==
    [r \in Regs |-> IF r >= dst /\ r < dst + Len(vals)
                    THEN vals[r - dst + 1] ELSE regs[r]]

NoError == [q \in OnlineParties |-> ""]

\* the protocol state and the files, sockets and buffers at the start
InitMachine(programs, shifts) ==
    /\ proto \in {"astra", "trio"}
    /\ signedShift \in shifts
    /\ prog \in programs
    /\ ppc = 0
    /\ pc = 0
    /\ prepS = [p \in PrepParties |-> [r \in Regs |-> Zero]]
    /\ onS = [q \in OnlineParties |-> [r \in Regs |-> Zero]]
    /\ prepB = [p \in PrepParties |-> [r \in Regs |-> Zero]]
    /\ onB = [q \in OnlineParties |-> [r \in Regs |-> Zero]]
    /\ tape = [q \in OnlineParties |-> <<>>]
    /\ stored = [q \in OnlineParties |-> <<>>]
    /\ rd = [q \in OnlineParties |-> 0]
    /\ readlog = [q \in OnlineParties |-> <<>>]
    /\ prngSeed = [p \in PrepParties |-> [g \in Gens |-> ReplicatedBase(g)[p]]]
    /\ prngPos = NoDraws
    /\ rnd = [s \in Seeds |-> <<>>]
    /\ wire = [q \in OnlineParties |-> <<>>]
    /\ sent = [q \in OnlineParties |-> 0]
    /\ pwire = <<>>
    /\ inputs = [q \in OnlineParties |-> <<>>]
    /\ opened = [q \in OnlineParties |-> <<>>]
    /\ err = NoError
    /\ outputs = <<>>
    /\ view0 = <<>>
    /\ files = {}
    /\ sock = <<>>
    /\ disk = <<>>
    /\ framed = [net |-> <<>>, file |-> <<>>]
    /\ unframed = [net |-> <<>>, file |-> <<>>, err |-> ""]

\* no octetStream is under test
NoStream ==
    /\ stream = <<>>
    /\ twin = <<>>
    /\ written = <<>>
    /\ readback = <<>>
    /\ stage = ""

\* a run that is not streamed: no process, pipe or connection
InitState(programs, shifts) ==
    /\ InitMachine(programs, shifts)
    /\ place = <<>>
    /\ fifo = <<>>
    /\ net = <<>>
    /\ NoStream

InitWith(programs) == InitState(programs, {TRUE})

\* the preprocessing parties are about to run an operation of this kind
PrepAt(kind) == ppc < Len(prog) /\ prog[ppc + 1].kind = kind
PrepAtAny(kinds) == ppc < Len(prog) /\ prog[ppc + 1].kind \in kinds
\* the online parties are about to run one, and its tape records exist
OnlineAt(kind) ==
    /\ pc < ppc
    /\ prog[pc + 1].kind = kind
    /\ err = NoError
OnlineAtAny(kinds) ==
    /\ pc < ppc
    /\ prog[pc + 1].kind \in kinds
    /\ err = NoError

PrepDone ==
    /\ ppc' = ppc + 1
    /\ UNCHANGED <<proto, prog, pc, onS, onB, rd, readlog, prngSeed, wire, sent,
                   inputs, opened, err, outputs, view0, signedShift>>
    /\ UNCHANGED ioVars
    /\ UNCHANGED streamVars
    /\ UNCHANGED bitVars
OnlineDone ==
    /\ pc' = pc + 1
    /\ UNCHANGED <<proto, prog, ppc, prepS, prepB, tape, stored, prngSeed, prngPos,
                   rnd, pwire, outputs, view0, signedShift>>
    /\ UNCHANGED ioVars
    /\ UNCHANGED streamVars
    /\ UNCHANGED bitVars

\* a faulty variant: every read of an operation returns its first record
Record_Reread(q, i) == tape[q][rd[q] + 1]

\* the i-th record online party q reads from now on, AstraOnlineBase::read
Record(q, i) == tape[q][rd[q] + i]
NextRecord(q) == Record(q, 1)

\* a faulty variant: party 2 stores the records of party 1
Store_Crossed(recs) ==
    /\ tape' = [q \in OnlineParties |-> tape[q] \o recs[1]]
    /\ stored' = [q \in OnlineParties |->
           stored[q] \o [i \in 1..Len(recs[1]) |-> ppc + 1]]

\* AstraPrepProtocol::store: parties 1 and 2 append the records recs[q] of
\* the operation to their tapes, party 0 stores nothing
Store(recs) ==
    /\ tape' = [q \in OnlineParties |-> tape[q] \o recs[q]]
    /\ stored' = [q \in OnlineParties |->
           stored[q] \o [i \in 1..Len(recs[q]) |-> ppc + 1]]

\* the online parties read the next n records of their tapes
\* a read that stays where it is when the next record is empty
Read_SkipEmpty(n) ==
    /\ rd' = [q \in OnlineParties |-> IF Record(q, 1) = <<>> THEN rd[q] ELSE rd[q] + n]
    /\ readlog' = [q \in OnlineParties |->
           readlog[q] \o [i \in 1..n |-> [op |-> pc + 1, rec |-> Record(q, i)]]]
Read(n) ==
    /\ rd' = [q \in OnlineParties |-> rd[q] + n]
    /\ readlog' = [q \in OnlineParties |->
           readlog[q] \o [i \in 1..n |-> [op |-> pc + 1, rec |-> Record(q, i)]]]

----------------------------------------------------------------------------
(* Multiplication and dot product rounds *)

RoundCount(op) == Len(op.dots) + Len(op.pairs)

\* next_dotprod: one input per dot product, the sum of the local products
PrepDotInputs(i, op) ==
    [d \in 1..Len(op.dots) |->
        SumSeq([k \in 1..Len(op.dots[d]) |->
            PrepLocalMul(proto, i, prepS[i][op.dots[d][k][1]],
                                   prepS[i][op.dots[d][k][2]])])]
PrepPairInputs(i, op) ==
    [k \in 1..Len(op.pairs) |->
        PrepLocalMul(proto, i, prepS[i][op.pairs[k][1]], prepS[i][op.pairs[k][2]])]
\* a faulty variant: only the first term of each dot product is used
OnlineDotInputs_FirstTerm(q, op) ==
    [d \in 1..Len(op.dots) |->
        OnlineLocalMul(proto, q, onS[q][op.dots[d][1][1]], onS[q][op.dots[d][1][2]])]

OnlineDotInputs(q, op) ==
    [d \in 1..Len(op.dots) |->
        SumSeq([k \in 1..Len(op.dots[d]) |->
            OnlineLocalMul(proto, q, onS[q][op.dots[d][k][1]],
                                     onS[q][op.dots[d][k][2]])])]
OnlinePairInputs(q, op) ==
    [k \in 1..Len(op.pairs) |->
        OnlineLocalMul(proto, q, onS[q][op.pairs[k][1]], onS[q][op.pairs[k][2]])]

\* a faulty variant: only the first limb of each result is put on the tape
PairUp_FirstOnly(first, second) == first
\* a faulty variant: the two limbs of each result are put in the other order
PairUp_Swapped(first, second) ==
    Flatten([k \in 1..Len(first) |-> <<second[k], first[k]>>])

\* the two limbs per result that post() puts on the tape
PairUp(first, second) ==
    Flatten([k \in 1..Len(first) |-> <<first[k], second[k]>>])

AstraPrepProtocol_exchange ==
    /\ PrepAt("round")
    /\ proto = "astra"
    /\ LET op == prog[ppc + 1]
           n == RoundCount(op)
           in0 == PrepDotInputs(0, op) \o PrepPairInputs(0, op)
           res0 == [k \in 1..n |-> <<Nxt(0, 0, 0, 2 * k - 1), Nxt(0, 0, 1, k)>>]
           os == [k \in 1..n |-> Sub(in0[k], Nxt(0, 0, 0, 2 * k))]
           res1 == [k \in 1..n |-> <<0, Nxt(1, 0, 1, 2 * k - 1)>>]
           gamma1 == [k \in 1..n |-> Nxt(1, 0, 1, 2 * k)]
           res2 == [k \in 1..n |-> <<0, Nxt(2, 0, 0, k)>>]
           rec1 == PairUp(gamma1, [k \in 1..n |-> res1[k][2]])
           rec2 == PairUp(os, [k \in 1..n |-> res2[k][2]])
       IN /\ Draw(DrawsOf(0, <<2 * n, n>>, <<0, 2 * n>>, <<n, 0>>))
          /\ prepS' = [p \in PrepParties |->
                 Put(prepS[p], op.dst,
                     IF p = 0 THEN res0 ELSE IF p = 1 THEN res1 ELSE res2)]
          /\ Store([q \in OnlineParties |-> <<IF q = 1 THEN rec1 ELSE rec2>>])
          /\ pwire' = <<[to |-> 2, data |-> os]>>
    /\ UNCHANGED prepB
    /\ PrepDone

\* a faulty variant: the new mask is added instead of subtracted
Astra_pre_AddMask(input, gamma, nl) == Add(Add(input, nl), gamma)

\* Astra::pre: the masked share an online party sends for one result
Astra_pre(input, gamma, nl) == Add(Sub(input, nl), gamma)

\* the j-th limb an unchecked read takes from a record: past the end of the
\* record it is whatever the buffer holds
Limb(rec, junk, j) == IF j <= Len(rec) THEN rec[j] ELSE junk[j - Len(rec)]
\* how many limbs past the end of a buffer of len limbs a party reads that
\* takes n of them unchecked
OverRead(len, n) == IF n > len THEN n - len ELSE 0
\* enough junk for every unchecked read of a round, n[q] the batch of party q
RoundJunk(n) ==
    [OnlineParties ->
        [1..SetMax({OverRead(Len(NextRecord(q)), 2 * n[q]) : q \in OnlineParties}
                   \cup {OverRead(n[3 - q], n[q]) : q \in OnlineParties}) -> JunkVals]]

\* a faulty variant: a short message is accepted
ShortMessage_Never(got, n) == FALSE

\* os_prep.left() < size * n_mults, and recv_os.left() < size * results.size()
ShortRecord(len, n) == len < n
ShortMessage(got, n) == got < n

Astra_exchange ==
    /\ OnlineAt("round")
    /\ proto = "astra"
    /\ LET op == prog[pc + 1]
           n(q) == RoundCount(op.on[q])
           in(q) == OnlineDotInputs(q, op.on[q]) \o OnlinePairInputs(q, op.on[q])
           \* os_prep.left() < size * n_mults
           short(q) == ShortRecord(Len(NextRecord(q)), n(q))
       IN /\ Read(1)
          /\ \E junk \in RoundJunk([q \in OnlineParties |-> n(q)]) :
                LET gamma(q, k) == Limb(NextRecord(q), junk[q], 2 * k - 1)
                    nl(q, k) == Limb(NextRecord(q), junk[q], 2 * k)
                    mz(q) == [k \in 1..n(q) |-> Astra_pre(in(q)[k], gamma(q, k), nl(q, k))]
                    \* P.exchange returns once the other party has sent
                    served(q) == ~short(q) /\ ~short(3 - q)
                    \* recv_os.left() < size * results.size()
                    starved(q) == served(q) /\ ShortMessage(n(3 - q), n(q))
                    \* assert(not os_prep.left())
                    left(q) == served(q) /\ ~starved(q) /\ Len(NextRecord(q)) # 2 * n(q)
                    done(q) == served(q) /\ ~starved(q) /\ ~left(q)
                    res(q) == [k \in 1..n(q) |->
                        <<Add(mz(q)[k], Limb(mz(3 - q), junk[q], k)), nl(q, k)>>]
                IN /\ err' = [q \in OnlineParties |->
                          IF short(q) THEN "insufficient preprocessing"
                          ELSE IF starved(q) THEN "insufficient data in Astra"
                          ELSE IF left(q) THEN "assertion failed" ELSE err[q]]
                   /\ onS' = [q \in OnlineParties |->
                          IF done(q) THEN Put(onS[q], op.dst, res(q)) ELSE onS[q]]
                   /\ wire' = [q \in OnlineParties |-> IF short(q) THEN <<>> ELSE mz(q)]
                   /\ sent' = [q \in OnlineParties |->
                          IF short(q) THEN sent[q] ELSE sent[q] + 1]
    /\ UNCHANGED <<inputs, opened>>
    /\ UNCHANGED onB
    /\ OnlineDone

TrioPrepProtocol_exchange ==
    /\ PrepAt("round")
    /\ proto = "trio"
    /\ LET op == prog[ppc + 1]
           n == RoundCount(op)
           in0 == PrepDotInputs(0, op) \o PrepPairInputs(0, op)
           \* pre_P0, then prng_protocol.randomize(z)
           os == [k \in 1..n |-> Add(in0[k], Nxt(0, 0, 0, 2 * k - 1))]
           z0 == [k \in 1..n |-> <<Nxt(0, 0, 0, 2 * k), Nxt(0, 0, 1, k)>>]
           r01 == [k \in 1..n |-> Nxt(1, 0, 1, 2 * k - 1)]
           z1 == [k \in 1..n |-> <<0, Nxt(1, 0, 1, 2 * k)>>]
           z2 == [k \in 1..n |-> <<0, Nxt(2, 0, 0, k)>>]
           rec1 == PairUp(r01, [k \in 1..n |-> z1[k][2]])
           rec2 == PairUp(os, [k \in 1..n |-> z2[k][2]])
       IN /\ Draw(DrawsOf(0, <<2 * n, n>>, <<0, 2 * n>>, <<n, 0>>))
          /\ prepS' = [p \in PrepParties |->
                 Put(prepS[p], op.dst,
                     IF p = 0 THEN z0 ELSE IF p = 1 THEN z1 ELSE z2)]
          /\ Store([q \in OnlineParties |-> <<IF q = 1 THEN rec1 ELSE rec2>>])
          /\ pwire' = <<[to |-> 2, data |-> os]>>
    /\ UNCHANGED prepB
    /\ PrepDone

\* a faulty variant: both parties send V + neg_lambda
Trio_pre_dot_SameSign(q, V, nl) == Add(V, nl)

\* Trio::pre_dot: what an online party sends for one result
Trio_pre_dot(q, V, nl) == IF q = 1 THEN Add(V, nl) ELSE Sub(V, nl)

Trio_exchange ==
    /\ OnlineAt("round")
    /\ proto = "trio"
    /\ LET op == prog[pc + 1]
           n(q) == RoundCount(op.on[q])
           \* the pairs are processed before the dot products
           in(q) == OnlinePairInputs(q, op.on[q]) \o OnlineDotInputs(q, op.on[q])
           \* prep.left() < size * n_mults()
           short(q) == ShortRecord(Len(NextRecord(q)), n(q))
       IN /\ Read(1)
          /\ \E junk \in RoundJunk([q \in OnlineParties |-> n(q)]) :
                LET V(q) == [k \in 1..n(q) |->
                        Add(in(q)[k], Limb(NextRecord(q), junk[q], 2 * k - 1))]
                    nl(q) == [k \in 1..n(q) |-> Limb(NextRecord(q), junk[q], 2 * k)]
                    snd(q) == [k \in 1..n(q) |-> Trio_pre_dot(q, V(q)[k], nl(q)[k])]
                    \* pass_around returns once the other party has sent
                    served(q) == ~short(q) /\ ~short(3 - q)
                    \* os[1].left() < size * n_mults()
                    starved(q) == served(q) /\ ShortMessage(n(3 - q), n(q))
                    done(q) == served(q) /\ ~starved(q)
                    res(q) == [k \in 1..n(q) |->
                        <<IF q = 1 THEN Sub(Limb(snd(2), junk[1], k), V(1)[k])
                          ELSE Sub(V(2)[k], Limb(snd(1), junk[2], k)),
                          nl(q)[k]>>]
                IN /\ err' = [q \in OnlineParties |->
                          IF short(q) THEN "not enough preprocessing"
                          ELSE IF starved(q) THEN "insufficient data in Trio" ELSE err[q]]
                   /\ onS' = [q \in OnlineParties |->
                          IF done(q) THEN Put(onS[q], op.dst, res(q)) ELSE onS[q]]
                   /\ wire' = [q \in OnlineParties |-> IF short(q) THEN <<>> ELSE snd(q)]
                   /\ sent' = [q \in OnlineParties |->
                          IF short(q) THEN sent[q] ELSE sent[q] + 1]
    /\ UNCHANGED <<inputs, opened>>
    /\ UNCHANGED onB
    /\ OnlineDone

----------------------------------------------------------------------------
(* Input rounds: op.n[q] values from the online party with astra_num q *)

AstraPrepInput_exchange ==
    /\ PrepAtAny({"input", "binput"})
    /\ LET op == prog[ppc + 1]
           n1 == op.n[1]
           n2 == op.n[2]
           \* party 0: results[1 + i] for the inputs of online player i
           res0 == [j \in 1..n1 |-> <<Nxt(0, 0, 0, j), 0>>]
                   \o [j \in 1..n2 |-> <<0, Nxt(0, 0, 1, j)>>]
           \* party 1: other = 1, its own inputs first
           gamma1 == [j \in 1..n1 |-> Nxt(1, 0, 1, j)]
           res1 == [j \in 1..n1 |-> <<0, gamma1[j]>>] \o [j \in 1..n2 |-> Zero]
           \* party 2: other = 0
           gamma2 == [j \in 1..n2 |-> Nxt(2, 0, 0, j)]
           res2 == [j \in 1..n1 |-> Zero] \o [j \in 1..n2 |-> <<0, gamma2[j]>>]
           res(p) == IF p = 0 THEN res0 ELSE IF p = 1 THEN res1 ELSE res2
       IN /\ Draw(DrawsOf(0, <<n1, n2>>, <<0, n1>>, <<n2, 0>>))
          /\ IF op.kind = "binput"
             THEN /\ prepB' = [p \in PrepParties |-> Put(prepB[p], op.dst, res(p))]
                  /\ UNCHANGED prepS
             ELSE /\ prepS' = [p \in PrepParties |-> Put(prepS[p], op.dst, res(p))]
                  /\ UNCHANGED prepB
          /\ Store([q \in OnlineParties |-> <<IF q = 1 THEN gamma1 ELSE gamma2>>])
          /\ pwire' = <<>>
    /\ PrepDone

\* a faulty variant: the owner adds its mask to the masked value
AstraInput_finalize_offset_Unmasked(bin, offset, res, o) ==
    IF offset = 0 THEN SetM(res, TAdd(bin, o, NegLambda(res))) ELSE SetM(res, o)

\* a faulty variant: the owner's mask limb is not kept
AstraInput_finalize_offset_NoMask(bin, offset, res, o) == <<o, 0>>

\* AstraInput::finalize_offset and TrioInput::finalize_offset: res is the
\* next stored result, o the next element of send_os (offset 0) or recv_os
AstraInput_finalize_offset(bin, offset, res, o) == SetM(res, o)
TrioInput_finalize_offset(bin, offset, res, o) ==
    IF offset = 0 THEN SetM(res, TAdd(bin, o, NegLambda(res))) ELSE SetM(res, o)
Input_finalize_offset(pr, bin, offset, res, o) ==
    IF pr = "astra" THEN AstraInput_finalize_offset(bin, offset, res, o)
                    ELSE TrioInput_finalize_offset(bin, offset, res, o)

AstraInput_exchange ==
    /\ OnlineAtAny({"input", "binput"})
    /\ LET op == prog[pc + 1]
           bin == op.kind = "binput"
           short(q) == Len(NextRecord(q)) < op.n[q]
       IN \E v1 \in [1..op.n[1] -> op.vals], v2 \in [1..op.n[2] -> op.vals] :
          LET v(q) == IF q = 1 THEN v1 ELSE v2
              snd(q) == [j \in 1..op.n[q] |-> TSub(bin, v(q)[j], NextRecord(q)[j])]
              \* the shares of owner's inputs as party q finalizes them
              fin(q, owner) == [j \in 1..op.n[owner] |->
                  Input_finalize_offset(proto, bin, owner - q,
                      IF owner = q THEN <<0, NextRecord(q)[j]>> ELSE Zero,
                      snd(owner)[j])]
              res(q) == fin(q, 1) \o fin(q, 2)
          IN /\ Read(1)
             /\ inputs' = [q \in OnlineParties |-> inputs[q] \o v(q)]
             /\ IF \E q \in OnlineParties : short(q)
                THEN /\ err' = [q \in OnlineParties |->
                           IF short(q) THEN "insufficient data in input" ELSE err[q]]
                     /\ UNCHANGED <<onS, onB, wire, sent>>
                ELSE /\ IF bin
                        THEN /\ onB' = [q \in OnlineParties |->
                                    Put(onB[q], op.dst, res(q))]
                             /\ UNCHANGED onS
                        ELSE /\ onS' = [q \in OnlineParties |->
                                    Put(onS[q], op.dst, res(q))]
                             /\ UNCHANGED onB
                     /\ wire' = [q \in OnlineParties |-> snd(q)]
                     /\ sent' = [q \in OnlineParties |-> sent[q] + 1]
                     /\ err' = err
    /\ UNCHANGED opened
    /\ OnlineDone

----------------------------------------------------------------------------
(* get_random and randoms_inst *)

\* AstraPrepProtocol::rep_index
rep_index(i, my_num) ==
    IF my_num = 0 THEN i ELSE IF i = 0 THEN my_num - 1 ELSE 2 - my_num

AstraPrepProtocol_from_rep3(x, my_num) ==
    <<x[rep_index(0, my_num) + 1], x[rep_index(1, my_num) + 1]>>
TrioPrepProtocol_from_rep3(x, my_num) ==
    LET res == AstraPrepProtocol_from_rep3(x, my_num)
    IN IF my_num > 0 THEN <<Add(res[1], res[2]), res[2]>> ELSE res

\* randomize_part: the low n bits of a generator output
RandomizePart(v, n) == v % (2^n)

\* the j-th share party p draws in a get_random (n = K) or randoms_inst
PrepRandomShare(pr, p, j, n) ==
    IF pr = "astra"
    THEN <<RandomizePart(Nxt(p, 0, rep_index(0, p), j), n),
           RandomizePart(Nxt(p, 0, rep_index(1, p), j), n)>>
    ELSE TrioPrepProtocol_from_rep3(<<RandomizePart(Nxt(p, 0, 0, j), n),
                                      RandomizePart(Nxt(p, 0, 1, j), n)>>, p)

AstraPrepProtocol_get_random ==
    /\ PrepAt("random")
    /\ LET op == prog[ppc + 1]
           res(p) == PrepRandomShare(proto, p, 1, K)
       IN /\ Draw(DrawsOf(0, <<1, 1>>, <<1, 1>>, <<1, 1>>))
          /\ prepS' = [p \in PrepParties |-> Put(prepS[p], op.dst, <<res(p)>>)]
          /\ Store([q \in OnlineParties |-> <<res(q)>>])
          /\ pwire' = <<>>
    /\ UNCHANGED prepB
    /\ PrepDone

AstraPrepProtocol_randoms_inst ==
    /\ PrepAt("randoms")
    /\ LET op == prog[ppc + 1]
           res(p) == [j \in 1..op.size |-> PrepRandomShare(proto, p, j, op.n)]
       IN /\ Draw(DrawsOf(0, <<op.size, op.size>>, <<op.size, op.size>>,
                              <<op.size, op.size>>))
          /\ prepS' = [p \in PrepParties |-> Put(prepS[p], op.dst, res(p))]
          /\ Store([q \in OnlineParties |-> <<Flatten(res(q))>>])
          /\ pwire' = <<>>
    /\ UNCHANGED prepB
    /\ PrepDone

\* AstraOnlineBase::get_random and randoms_inst: the shares are unpacked
\* from one record
AstraOnlineBase_get_random ==
    /\ OnlineAt("random")
    /\ LET op == prog[pc + 1]
           res(q) == <<NextRecord(q)[1], NextRecord(q)[2]>>
       IN onS' = [q \in OnlineParties |-> Put(onS[q], op.dst, <<res(q)>>)]
    /\ Read(1)
    /\ UNCHANGED <<wire, sent, inputs, opened, err>>
    /\ UNCHANGED onB
    /\ OnlineDone

AstraOnlineBase_randoms_inst ==
    /\ OnlineAt("randoms")
    /\ LET op == prog[pc + 1]
           res(q) == [j \in 1..op.size |->
               <<NextRecord(q)[2 * j - 1], NextRecord(q)[2 * j]>>]
       IN onS' = [q \in OnlineParties |-> Put(onS[q], op.dst, res(q))]
    /\ Read(1)
    /\ UNCHANGED <<wire, sent, inputs, opened, err>>
    /\ UNCHANGED onB
    /\ OnlineDone

----------------------------------------------------------------------------
(* unsplit1: one destination register per bit, by reduced multiplication *)

\* the limb1 of a destination register: x[1] = a[1] - c[1] * 2
Unsplit1Mask(a1, c1) == Sub(a1, Mul(c1, 2))

AstraPrepProtocol_unsplit1 ==
    /\ PrepAt("unsplit1")
    /\ LET op == prog[ppc + 1]
           n == op.n
           \* party 0: the bits of x.sum(), shared as a[0] + a[1]
           bit(i) == GetBit(Xor(prepB[0][op.src][1], prepB[0][op.src][2]), i - 1)
           a0(i) == <<Nxt(0, 0, 0, 2 * i - 1), Sub(bit(i), Nxt(0, 0, 0, 2 * i - 1))>>
           c0(i) == <<Nxt(0, 0, 0, 2 * i), Nxt(0, 0, 1, i)>>
           os == [i \in 1..n |-> a0(i)[2]]
           res0 == [i \in 1..n |-> ShareSub(a0(i), ShareScale(c0(i), 2))]
           \* party 1: a[1] and c[1] from shared_prngs[1]
           rec1 == PairUp([i \in 1..n |-> Nxt(1, 0, 1, 2 * i - 1)],
                          [i \in 1..n |-> Nxt(1, 0, 1, 2 * i)])
           \* party 2: a[1] from party 0, c[1] from shared_prngs[0]
           rec2 == PairUp(os, [i \in 1..n |-> Nxt(2, 0, 0, i)])
           rec(q) == IF q = 1 THEN rec1 ELSE rec2
           \* parties 1 and 2 only set limb 1 of the destination
           res(q) == [i \in 1..n |->
               <<prepS[q][op.dst + i - 1][1],
                 Unsplit1Mask(rec(q)[2 * i - 1], rec(q)[2 * i])>>]
       IN /\ Draw(DrawsOf(0, <<2 * n, n>>, <<0, 2 * n>>, <<n, 0>>))
          /\ prepS' = [p \in PrepParties |->
                 Put(prepS[p], op.dst, IF p = 0 THEN res0 ELSE res(p))]
          /\ Store([q \in OnlineParties |-> <<rec(q)>>])
          /\ pwire' = <<[to |-> 2, data |-> os]>>
    /\ UNCHANGED prepB
    /\ PrepDone

\* a faulty variant: the product is not doubled
AstraShare_unsplit1_result_Single(bb, a1, c1, Mi, received) ==
    <<Sub(Sub(bb, Mi), received), Sub(a1, Mul(c1, 2))>>

\* AstraShare::pre_reduced_mul sends Mi = bb * a.neg_lambda - c.neg_lambda
AstraShare_reduced_Mi(bb, a1, c1) == Sub(Mul(bb, a1), c1)
\* a + b - 2 * c, then x.m -= res.second * 2
AstraShare_unsplit1_result(bb, a1, c1, Mi, received) ==
    <<Sub(Sub(bb, Mul(2, Mi)), Mul(received, 2)), Sub(a1, Mul(c1, 2))>>

Astra_unsplit1 ==
    /\ OnlineAt("unsplit1")
    /\ proto = "astra"
    /\ LET op == prog[pc + 1]
           n == op.n
           bb(q, i) == GetBit(M(onB[q][op.src]), i - 1)
           a1(q, i) == NextRecord(q)[2 * i - 1]
           c1(q, i) == NextRecord(q)[2 * i]
           Mi(q) == [i \in 1..n |-> AstraShare_reduced_Mi(bb(q, i), a1(q, i), c1(q, i))]
           res(q) == [i \in 1..n |->
               AstraShare_unsplit1_result(bb(q, i), a1(q, i), c1(q, i),
                                          Mi(q)[i], Mi(3 - q)[i])]
       IN /\ onS' = [q \in OnlineParties |-> Put(onS[q], op.dst, res(q))]
          /\ wire' = [q \in OnlineParties |-> Mi(q)]
          /\ sent' = [q \in OnlineParties |-> sent[q] + 1]
    /\ Read(1)
    /\ UNCHANGED <<inputs, opened, err>>
    /\ UNCHANGED onB
    /\ OnlineDone

\* TrioShare::pre_reduced_mul: V1 = b.m * a.lambda, V2 = a.m * b.m
TrioShare_reduced_V(q, bb, a1) == IF q = 1 THEN Mul(bb, Neg(a1)) ELSE Mul(a1, bb)
\* TrioShare::post_reduced_mul: the product share mc
TrioShare_post_reduced_mul(q, V, received) ==
    IF q = 1 THEN Sub(received, V) ELSE Sub(V, received)

Trio_unsplit1 ==
    /\ OnlineAt("unsplit1")
    /\ proto = "trio"
    /\ LET op == prog[pc + 1]
           n == op.n
           bb(q, i) == GetBit(Xor(onB[q][op.src][1], onB[q][op.src][2]), i - 1)
           a1(q, i) == NextRecord(q)[2 * i - 1]
           c1(q, i) == NextRecord(q)[2 * i]
           V(q, i) == TrioShare_reduced_V(q, bb(q, i), a1(q, i))
           snd(q) == [i \in 1..n |-> Trio_pre_dot(q, V(q, i), c1(q, i))]
           \* a + b - 2 * c with a = (a1, a1), b = (bb, 0), c = (0, c1)
           first(q, i) == <<Add(a1(q, i), bb(q, i)), Sub(a1(q, i), Mul(2, c1(q, i)))>>
           mc(q, i) == TrioShare_post_reduced_mul(q, V(q, i), snd(3 - q)[i])
           res(q) == [i \in 1..n |->
               <<Sub(first(q, i)[1], Mul(mc(q, i), 2)), first(q, i)[2]>>]
       IN /\ onS' = [q \in OnlineParties |-> Put(onS[q], op.dst, res(q))]
          /\ wire' = [q \in OnlineParties |-> snd(q)]
          /\ sent' = [q \in OnlineParties |-> sent[q] + 1]
    /\ Read(1)
    /\ UNCHANGED <<inputs, opened, err>>
    /\ UNCHANGED onB
    /\ OnlineDone

----------------------------------------------------------------------------
(* unsplit with two destination registers per bit *)

\* the registers first, first + 1, ... take xs and those from second on
\* take ys, pair by pair
RECURSIVE DoubleRangeLoop(_, _, _, _, _)
DoubleRangeLoop(S, first, second, xs, ys) ==
    IF xs = <<>> THEN S
    ELSE DoubleRangeLoop([[S EXCEPT ![first] = Head(xs)] EXCEPT ![second] = Head(ys)],
                         first + 1, second + 1, Tail(xs), Tail(ys))

\* AstraPrepProtocol::unsplit and unsplit_finish: party 0 inputs the bits of
\* source.sum() with unsplit_input, every party converts its share and
\* clears the second register, parties 1 and 2 store the shares
AstraPrepProtocol_unsplit ==
    /\ PrepAt("unsplit")
    /\ LET op == prog[ppc + 1]
           n == op.n
           bit(i) == GetBit(Xor(prepB[0][op.src][1], prepB[0][op.src][2]), i - 1)
           \* add_mine_prepared on party 0, finalize_offset(-MY_NUM) on all
           mine(i) == <<Nxt(0, 2, 0, i), Sub(bit(i), Nxt(0, 2, 0, i))>>
           rep(p, i) == IF p = 0 THEN mine(i)
                        ELSE IF p = 1 THEN <<0, Nxt(1, 2, 1, i)>>
                        ELSE <<mine(i)[2], 0>>
           x(p) == [i \in 1..n |-> AstraPrepProtocol_from_rep3(rep(p, i), p)]
       IN /\ Draw(DrawsOf(2, <<n, 0>>, <<0, n>>, <<0, 0>>))
          /\ prepS' = [p \in PrepParties |->
                 DoubleRangeLoop(prepS[p], op.dst, op.dst2, x(p), [i \in 1..n |-> Zero])]
          /\ Store([q \in OnlineParties |-> <<Flatten(x(q))>>])
          /\ pwire' = <<[to |-> 2, data |-> [i \in 1..n |-> mine(i)[2]]]>>
    /\ UNCHANGED prepB
    /\ PrepDone

\* from_rep3 of the bit type: the limbs are added bitwise under Trio
BitFromRep3(pr, x) == IF pr = "astra" THEN x ELSE <<Xor(x[1], x[2]), x[2]>>

\* the loop of AstraOnlineBase::unsplit over the bits: the second register
\* is reached after the first is written
RECURSIVE UnsplitLoop(_, _, _, _, _)
UnsplitLoop(S, op, ys, m, i) ==
    IF i > op.n THEN S
    ELSE LET S1 == [S EXCEPT ![op.dst + i - 1] = ys[i]]
             d == op.dst2 + i - 1
         IN UnsplitLoop([S1 EXCEPT ![d] = SetM(S1[d], GetBit(m, i - 1))],
                        op, ys, m, i + 1)

\* AstraOnlineBase::unsplit: the first register of a bit is the share of
\* the record, converted; the second takes the bit of the masked value in
\* limb 0 and keeps its limb 1
AstraOnlineBase_unsplit ==
    /\ OnlineAt("unsplit")
    /\ LET op == prog[pc + 1]
           n == op.n
           short(q) == Len(NextRecord(q)) < 2 * n
           x(q) == BitFromRep3(proto, onB[q][op.src])
           y(q) == [i \in 1..n |->
               FromRep3(proto, <<NextRecord(q)[2 * i - 1], NextRecord(q)[2 * i]>>)]
       IN /\ Read(1)
          /\ IF \E q \in OnlineParties : short(q)
             THEN /\ err' = [q \in OnlineParties |->
                        IF short(q) THEN "insufficient data" ELSE err[q]]
                  /\ UNCHANGED onS
             ELSE /\ onS' = [q \in OnlineParties |->
                        UnsplitLoop(onS[q], op, y(q), M(x(q)), 1)]
                  /\ err' = err
    /\ UNCHANGED <<wire, sent, inputs, opened>>
    /\ UNCHANGED onB
    /\ OnlineDone

----------------------------------------------------------------------------
(* Probabilistic truncation *)

\* a faulty variant: the comparison is strict
BigGap_Strict(info) == info.k < K - TruncError

\* TruncPrTupleWithGap::big_gap and small_gap
BigGap(info) == info.k <= K - TruncError
SmallGap(info) == ~BigGap(info)

\* the registers of a batch in the order the loops visit them
TruncElems(tuples, size) ==
    Flatten([t \in 1..Len(tuples) |->
        [i \in 1..size |-> [dst |-> tuples[t].dst + i - 1,
                            src |-> tuples[t].src + i - 1,
                            k |-> tuples[t].k,
                            m |-> tuples[t].m]]])

\* a faulty variant: the sum of the masks is shifted as it is
TruncGen_Unnegated(x, m, r) == <<Sub(RightShift(Sum(x), m), r), r>>

\* party 0: y[0] = -(-x.neg_lambda_sum() >> m) - r, y[1] = r
TruncGen(x, m, r) == <<Sub(Neg(RightShift(Neg(Sum(x)), m)), r), r>>

\* the generating party's loop over a big-gap batch: its registers and what
\* it sends to party 1
RECURSIVE TruncGenLoop(_, _, _, _)
TruncGenLoop(S, cs, elems, rs) ==
    IF elems = <<>> THEN [S |-> S, cs |-> cs]
    ELSE LET e == Head(elems)
             y == TruncGen(S[e.src], e.m, Head(rs))
         IN TruncGenLoop([S EXCEPT ![e.dst] = y], Append(cs, y[1]),
                         Tail(elems), Tail(rs))

\* parties 1 and 2: y.neg_lambda = the next value
RECURSIVE TruncMaskLoop(_, _, _)
TruncMaskLoop(S, elems, vals) ==
    IF elems = <<>> THEN S
    ELSE LET e == Head(elems)
         IN TruncMaskLoop([S EXCEPT ![e.dst] = SetNegLambda(S[e.dst], Head(vals))],
                          Tail(elems), Tail(vals))

\* TruncPrTuple::add_before, subtract_after and correction_shift
AddBefore(k) == Shl(1, k - 1)
\* a faulty variant: the shift amount is left out
SubtractAfter_Unshifted(k, m) == Shl(1, k - 1)
SubtractAfter(k, m) == Shl(1, k - m - 1)
CorrectionShift(m, x) == <<Shl(x[1], K - m), Shl(x[2], K - m)>>

\* the first loop of trunc_pr_small_gap_finish on party 0 for one register:
\* r = y.sum() + add_before - 1, add_gen(r >> m) with the random limb g,
\* pre_reduced_mul with the random limbs a0, c0, c1
SmallGapGen(y, e, r) ==
    LET rr == Add(Sum(y), Sub(AddBefore(e.k), 1))
        r_dprime == <<r.a0, Sub(Msb(rr), r.a0)>>
        prod == <<r.c0, r.c1>>
    IN [x |-> CorrectionShift(e.m, ShareSub(prod, r_dprime)),
        gen |-> <<Sub(RightShift(rr, e.m), r.g), r.g>>,
        os |-> r_dprime[2]]

\* party 0's registers after the first loop, its gen_values and what it
\* sends to party 2
RECURSIVE SmallGapGenLoop(_, _, _, _, _)
SmallGapGenLoop(S, gen, os, elems, rs) ==
    IF elems = <<>> THEN [S |-> S, gen |-> gen, os |-> os]
    ELSE LET e == Head(elems)
             g == SmallGapGen(S[e.src], e, Head(rs))
         IN SmallGapGenLoop([S EXCEPT ![e.dst] = g.x], Append(gen, g.gen),
                            Append(os, g.os), Tail(elems), Tail(rs))

\* x = vals[j] and x += vals[j] for the registers of a batch in turn
RECURSIVE PutLoop(_, _, _)
PutLoop(S, elems, vals) ==
    IF elems = <<>> THEN S
    ELSE PutLoop([S EXCEPT ![Head(elems).dst] = Head(vals)], Tail(elems), Tail(vals))
RECURSIVE AddLoop(_, _, _)
AddLoop(S, elems, vals) ==
    IF elems = <<>> THEN S
    ELSE LET d == Head(elems).dst
         IN AddLoop([S EXCEPT ![d] = ShareAdd(S[d], Head(vals))],
                    Tail(elems), Tail(vals))

\* a faulty variant: party 2 draws nothing for the big-gap registers
TruncDraws_NoBigOnTwo(nb, ns) ==
    [p \in PrepParties |-> [g \in Gens |->
        IF g = 0
        THEN IF p = 0 THEN <<2 * ns, nb + ns>>
             ELSE IF p = 1 THEN <<0, 2 * ns>> ELSE <<ns, 0>>
        ELSE IF g = 1
        THEN IF p = 0 THEN <<0, ns>> ELSE IF p = 1 THEN <<0, 0>> ELSE <<ns, 0>>
        ELSE <<0, 0>>]]

\* the generator draws of a truncation batch with nb big-gap and ns
\* small-gap registers: prng_protocol and prng_protocol_for_input0
TruncDraws(nb, ns) ==
    [p \in PrepParties |-> [g \in Gens |->
        IF g = 0
        THEN IF p = 0 THEN <<2 * ns, nb + ns>>
             ELSE IF p = 1 THEN <<0, 2 * ns>> ELSE <<nb + ns, 0>>
        ELSE IF g = 1
        THEN IF p = 0 THEN <<0, ns>> ELSE IF p = 1 THEN <<0, 0>> ELSE <<ns, 0>>
        ELSE <<0, 0>>]]

\* AstraPrepProtocol::trunc_pr: the big-gap tuples, then the small-gap ones
AstraPrepProtocol_trunc_pr ==
    /\ PrepAt("trunc")
    /\ LET op == prog[ppc + 1]
           big == TruncElems(SelectSeq(op.tuples, BigGap), op.size)
           small == TruncElems(SelectSeq(op.tuples, SmallGap), op.size)
           nb == Len(big)
           ns == Len(small)
           \* trunc_pr_big_gap
           gen == TruncGenLoop(prepS[0], <<>>, big, [j \in 1..nb |-> Nxt(0, 0, 1, j)])
           own == [j \in 1..nb |-> Nxt(2, 0, 0, j)]
           bigrec(q) == IF q = 1 THEN gen.cs ELSE own
           \* trunc_pr_small_gap on party 0
           rs == [j \in 1..ns |-> [a0 |-> Nxt(0, 0, 0, 2 * j - 1),
                                   c0 |-> Nxt(0, 0, 0, 2 * j),
                                   c1 |-> Nxt(0, 0, 1, nb + j),
                                   g |-> Nxt(0, 1, 1, j)]]
           sg == SmallGapGenLoop(gen.S, <<>>, <<>>, small, rs)
           cs == [j \in 1..ns |-> sg.gen[j][1]]
           \* on parties 1 and 2: a[1], c[1] and r_prime[1] of every register
           a1(q) == [j \in 1..ns |-> IF q = 1 THEN Nxt(1, 0, 1, 2 * j - 1) ELSE sg.os[j]]
           c1(q) == [j \in 1..ns |->
               IF q = 1 THEN Nxt(1, 0, 1, 2 * j) ELSE Nxt(2, 0, 0, nb + j)]
           rp(q) == [j \in 1..ns |-> IF q = 1 THEN cs[j] ELSE Nxt(2, 1, 0, j)]
           first(q) == [j \in 1..ns |->
               CorrectionShift(small[j].m, ShareSub(<<0, c1(q)[j]>>, <<0, a1(q)[j]>>))]
           res(p) ==
               IF p = 0 THEN AddLoop(sg.S, small, sg.gen)
               ELSE AddLoop(PutLoop(TruncMaskLoop(prepS[p], big, bigrec(p)),
                                    small, first(p)),
                            small, [j \in 1..ns |-> <<0, rp(p)[j]>>])
       IN /\ Draw(TruncDraws(nb, ns))
          /\ prepS' = [p \in PrepParties |-> res(p)]
          /\ Store([q \in OnlineParties |->
                 (IF nb > 0 THEN <<bigrec(q)>> ELSE <<>>)
                 \o (IF ns > 0 THEN <<PairUp(a1(q), c1(q)), rp(q)>> ELSE <<>>)])
          /\ pwire' = (IF nb > 0 THEN <<[to |-> 1, data |-> gen.cs]>> ELSE <<>>)
                      \o (IF ns > 0 THEN <<[to |-> 2, data |-> sg.os],
                                           [to |-> 1, data |-> cs]>> ELSE <<>>)
    /\ UNCHANGED prepB
    /\ PrepDone

\* the online loop over a big-gap batch: y.neg_lambda = the next value of
\* the record, then y.set_common_m(x.common_m() >> m)
RECURSIVE TruncOnlineLoop(_, _, _, _)
TruncOnlineLoop(pr, S, elems, vals) ==
    IF elems = <<>> THEN S
    ELSE LET e == Head(elems)
             S1 == [S EXCEPT ![e.dst] = SetNegLambda(S[e.dst], Head(vals))]
             y == SetCommonM(pr, S1[e.dst], RightShift(CommonM(pr, S1[e.src]), e.m))
         IN TruncOnlineLoop(pr, [S1 EXCEPT ![e.dst] = y], Tail(elems), Tail(vals))

\* the first loop of trunc_pr_small_gap_finish on online party q for one
\* register, with a[1] and c[1] of the reduced multiplication from the tape
SmallGapOnline(pr, q, y, e, a1, c1) ==
    LET c == CommonM(pr, y)
        c_msb == Msb(c)
        c_prime == <<RightShift(c, e.m), 0>>
        c_dprime == <<c_msb, 0>>
        r_dprime == IF pr = "astra" THEN <<0, a1>> ELSE <<a1, a1>>
        Mi == AstraShare_reduced_Mi(c_msb, a1, c1)
        V == TrioShare_reduced_V(q, c_msb, a1)
        prod == IF pr = "astra" THEN <<Mi, c1>> ELSE <<0, c1>>
    IN [x |-> ShareAdd(c_prime, CorrectionShift(e.m,
                  ShareSub(prod, ShareAdd(r_dprime, c_dprime)))),
        snd |-> IF pr = "astra" THEN Mi ELSE Trio_pre_dot(q, V, c1),
        V |-> V]

RECURSIVE SmallGapOnlineLoop(_, _, _, _, _, _, _)
SmallGapOnlineLoop(pr, q, S, snd, V, elems, rec) ==
    IF elems = <<>> THEN [S |-> S, snd |-> snd, V |-> V]
    ELSE LET e == Head(elems)
             o == SmallGapOnline(pr, q, S[e.src], e, rec[1], rec[2])
         IN SmallGapOnlineLoop(pr, q, [S EXCEPT ![e.dst] = o.x], Append(snd, o.snd),
                               Append(V, o.V), Tail(elems), SubSeq(rec, 3, Len(rec)))

\* what the second loop adds to a register: r_prime - constant(subtract_after
\* - 1), and correction_shift(res.second) on limb 0
SmallGapFinish(pr, q, e, rp, V, received) ==
    LET r_prime == IF pr = "astra" THEN <<0, rp>> ELSE TrioShare_from_rep3(<<0, rp>>)
        second == IF pr = "astra" THEN received
                  ELSE TrioShare_post_reduced_mul(q, V, received)
        d == ShareSub(r_prime, <<Sub(SubtractAfter(e.k, e.m), 1), 0>>)
    IN <<Add(d[1], Shl(second, K - e.m)), d[2]>>

\* a faulty variant: a batch without small-gap elements has a round as well
TruncRounds_Always(ns) == 1

\* the messages an online party sends in a truncation batch with ns
\* small-gap elements: those of exchange_reduced_mul, if it is reached
TruncRounds(ns) == IF ns > 0 THEN 1 ELSE 0

\* AstraOnlineBase::trunc_pr: the big-gap tuples, then the small-gap ones
AstraOnlineBase_trunc_pr ==
    /\ OnlineAt("trunc")
    /\ LET op == prog[pc + 1]
           big == TruncElems(SelectSeq(op.tuples, BigGap), op.size)
           small == TruncElems(SelectSeq(op.tuples, SmallGap), op.size)
           nb == Len(big)
           ns == Len(small)
           off == IF nb > 0 THEN 1 ELSE 0
           nrec == off + (IF ns > 0 THEN 2 ELSE 0)
           short(q) ==
               \/ nb > 0 /\ Len(Record(q, 1)) < nb
               \/ ns > 0 /\ Len(Record(q, off + 1)) < 2 * ns
               \/ ns > 0 /\ Len(Record(q, off + 2)) < ns
           long(q) == nb > 0 /\ Len(Record(q, 1)) > nb
           S1(q) == TruncOnlineLoop(proto, onS[q], big, Record(q, 1))
           sg(q) == SmallGapOnlineLoop(proto, q, S1(q), <<>>, <<>>, small,
                                       Record(q, off + 1))
           fin(q) == [j \in 1..ns |->
               SmallGapFinish(proto, q, small[j], Record(q, off + 2)[j],
                              sg(q).V[j], sg(3 - q).snd[j])]
       IN /\ Read(nrec)
          /\ IF \E q \in OnlineParties : short(q) \/ long(q)
             THEN /\ err' = [q \in OnlineParties |->
                        IF short(q) THEN "insufficient data"
                        ELSE IF long(q) THEN "assertion failed" ELSE err[q]]
                  /\ UNCHANGED <<onS, wire, sent>>
             ELSE /\ onS' = [q \in OnlineParties |->
                        IF ns > 0 THEN AddLoop(sg(q).S, small, fin(q)) ELSE S1(q)]
                  /\ wire' = IF ns > 0 THEN [q \in OnlineParties |-> sg(q).snd]
                             ELSE wire
                  /\ sent' = [q \in OnlineParties |-> sent[q] + TruncRounds(ns)]
                  /\ err' = err
    /\ UNCHANGED <<inputs, opened>>
    /\ UNCHANGED onB
    /\ OnlineDone

----------------------------------------------------------------------------
(* Opening *)

\* a faulty variant: party 1 sends its masked value alone
AstraMC_prepare_summand_NoMask(q, secret) ==
    IF q = 1 THEN M(secret) ELSE Neg(Lambda(secret))

\* AstraMC::prepare_summand and TrioMC::prepare_summand
AstraMC_prepare_summand(q, secret) ==
    IF q = 1 THEN Sub(M(secret), Lambda(secret)) ELSE Neg(Lambda(secret))
TrioMC_prepare_summand(q, secret) == secret[q]
PrepareSummand(pr, q, secret) ==
    IF pr = "astra" THEN AstraMC_prepare_summand(q, secret)
                    ELSE TrioMC_prepare_summand(q, secret)

\* SemiMC: each party adds the received value to its own summand
SemiMC_finalize(own, received) == Add(own, received)

\* what opening register r of the online registers S gives
OpenOf(pr, S, r) ==
    SemiMC_finalize(PrepareSummand(pr, 1, S[1][r]), PrepareSummand(pr, 2, S[2][r]))
Open(r) == OpenOf(proto, onS, r)

\* the preprocessing parties open with ReplicatedMC: nothing goes on a tape
PrepOpen ==
    /\ PrepAt("open")
    /\ UNCHANGED <<prepS, prepB, tape, stored, prngPos, rnd, pwire>>
    /\ PrepDone

AstraMC_exchange ==
    /\ OnlineAt("open")
    /\ LET op == prog[pc + 1]
           summand(q) == [i \in 1..Len(op.regs) |->
               PrepareSummand(proto, q, onS[q][op.regs[i]])]
       IN /\ wire' = [q \in OnlineParties |-> summand(q)]
          /\ sent' = [q \in OnlineParties |-> sent[q] + 1]
          /\ opened' = [q \in OnlineParties |-> [i \in 1..Len(op.regs) |->
                 SemiMC_finalize(summand(q)[i], summand(3 - q)[i])]]
    /\ UNCHANGED <<onS, rd, readlog, inputs, err>>
    /\ UNCHANGED onB
    /\ OnlineDone

----------------------------------------------------------------------------
(* sync: clear values go from the online to the preprocessing parties *)

\* a faulty variant: the file is read from its start every time
NextOutput_Rewound(file, n) == file[1]

\* os.input(outputs): the next vector of the file, n vectors being read
NextOutput(file, n) == file[n + 1]

\* AstraOnlineBase::sync: the online party with P.my_num() = 0, party 1,
\* appends the values to its output file; nothing is read from the tape
AstraOnlineBase_sync ==
    /\ pc < Len(prog)
    /\ prog[pc + 1].kind = "sync"
    /\ err = NoError
    /\ outputs' = Append(outputs, opened[1])
    /\ pc' = pc + 1
    /\ UNCHANGED <<proto, prog, ppc, prepS, prepB, tape, stored, prngSeed, prngPos,
                   rnd, pwire, view0, signedShift>>
    /\ UNCHANGED <<onS, onB, rd, readlog, wire, sent, inputs, opened, err>>
    /\ UNCHANGED ioVars
    /\ UNCHANGED streamVars
    /\ UNCHANGED bitVars

\* AstraPrepProtocol::sync: party 1 reads the next vector of the output
\* file and sends it to all, so party 0 receives it. The step is taken
\* once the file holds that vector.
AstraPrepProtocol_sync ==
    /\ PrepAt("sync")
    /\ Len(view0) < Len(outputs)
    /\ view0' = Append(view0, NextOutput(outputs, Len(view0)))
    /\ ppc' = ppc + 1
    /\ UNCHANGED <<proto, prog, pc, onS, onB, rd, readlog, prngSeed, wire, sent,
                   inputs, opened, err, outputs, signedShift>>
    /\ UNCHANGED <<prepS, prepB, tape, stored, prngPos, rnd, pwire>>
    /\ UNCHANGED ioVars
    /\ UNCHANGED streamVars
    /\ UNCHANGED bitVars

----------------------------------------------------------------------------
(* Sums, scalar products and constants: every party on its own shares *)

\* what a party whose registers are S and whose constant(c) is const puts
\* into the destination register
LocalResult(S, op, const) ==
    CASE op.kind = "add" -> ShareAdd(S[op.a], S[op.b])
      [] op.kind = "scale" -> ShareScale(S[op.a], op.c)
      [] op.kind = "const" -> const

\* the preprocessing parties: nothing is drawn, sent or stored
PrepLocal ==
    /\ PrepAtAny(LocalKinds)
    /\ LET op == prog[ppc + 1]
       IN prepS' = [p \in PrepParties |->
              Put(prepS[p], op.dst,
                  <<LocalResult(prepS[p], op,
                        IF op.kind = "const" THEN AstraPrepShare_constant(op.c, p)
                        ELSE Zero)>>)]
    /\ pwire' = <<>>
    /\ UNCHANGED <<prepB, tape, stored, prngPos, rnd>>
    /\ PrepDone

\* the online parties, P.my_num() being q - 1: nothing is read or sent
OnlineLocal ==
    /\ OnlineAtAny(LocalKinds)
    /\ LET op == prog[pc + 1]
       IN onS' = [q \in OnlineParties |->
              Put(onS[q], op.dst,
                  <<LocalResult(onS[q], op,
                        IF op.kind = "const" THEN AstraShare_constant(op.c, q - 1)
                        ELSE Zero)>>)]
    /\ UNCHANGED <<onB, rd, readlog, wire, sent, inputs, opened, err>>
    /\ OnlineDone

----------------------------------------------------------------------------
(* Multiplication: inputs, then rounds of products and dot products *)

InputsAt1 == {InputOp(1, 1, 1), InputOp(2, 0, 1), InputOp(0, 2, 1)}

\* products of fresh inputs, a batch written over its own sources, and
\* products of products (both masks of an operand non-zero)
MulPrograms ==
    {<<i, RoundOp(<<>>, <<<<1, 2>>>>, 3)>> : i \in InputsAt1}
    \cup {<<InputOp(1, 1, 1), RoundOp(<<>>, <<<<1, 2>>, <<2, 2>>>>, 2)>>}
    \cup {<<InputOp(1, 1, 1), RoundOp(<<>>, <<<<1, 2>>>>, 3),
            RoundOp(<<>>, <<ab>>, 2)>> : ab \in {<<3, 1>>, <<3, 3>>}}

InitMul == InitWith(MulPrograms)

NextMul ==
    \/ AstraPrepInput_exchange
    \/ AstraInput_exchange
    \/ AstraPrepProtocol_exchange
    \/ Astra_exchange
    \/ TrioPrepProtocol_exchange
    \/ Trio_exchange

SpecMul == InitMul /\ [][NextMul]_vars

----------------------------------------------------------------------------
(* Input rounds alone, the inputs ranging over the whole ring *)

InputPrograms ==
    {<<InputOpFrom(n[1], n[2], 1, Ring)>> :
        n \in {<<1, 1>>, <<2, 1>>, <<1, 2>>, <<2, 0>>, <<0, 2>>}}
    \cup {<<InputOpFrom(1, 0, 1, Ring), InputOp(1, 1, 2)>>,
           <<InputOpFrom(0, 1, 3, Ring), InputOp(0, 2, 1)>>}

InitInput == InitWith(InputPrograms)
NextInput ==
    \/ AstraPrepInput_exchange
    \/ AstraInput_exchange
SpecInput == InitInput /\ [][NextInput]_vars

----------------------------------------------------------------------------
(* Openings of inputs and of products *)

OpenPrograms ==
    {<<InputOp(1, 1, 1), RoundOp(<<>>, <<<<1, 2>>>>, 3), OpenOp(regs)>> :
        regs \in {<<3>>, <<3, 1>>, <<2, 3, 1>>}}
    \cup {<<InputOpFrom(n[1], n[2], 1, Ring), OpenOp(<<2, 1>>)>> :
        n \in {<<2, 0>>, <<0, 2>>}}

InitOpen == InitWith(OpenPrograms)
NextOpen ==
    \/ AstraPrepInput_exchange
    \/ AstraInput_exchange
    \/ AstraPrepProtocol_exchange
    \/ Astra_exchange
    \/ TrioPrepProtocol_exchange
    \/ Trio_exchange
    \/ PrepOpen
    \/ AstraMC_exchange
SpecOpen == InitOpen /\ [][NextOpen]_vars

----------------------------------------------------------------------------
(* Rounds of dot products of length 1 to 3 *)

DotPrograms ==
    {<<InputOp(1, 1, 1), RoundOp(<<d>>, <<>>, 3)>> :
        d \in {<<<<1, 2>>>>, <<<<1, 2>>, <<2, 2>>>>,
               <<<<1, 2>>, <<2, 2>>, <<1, 1>>>>}}
    \cup {<<InputOp(1, 1, 1),
            RoundOp(<<<<<<1, 2>>, <<1, 1>>>>, <<<<2, 2>>>>>>, <<>>, 2)>>,
           <<InputOp(1, 1, 1), RoundOp(<<>>, <<<<1, 2>>>>, 3),
            RoundOp(<<<<<<3, 1>>, <<3, 3>>>>>>, <<>>, 2)>>}

InitDot == InitWith(DotPrograms)
NextDot ==
    \/ AstraPrepInput_exchange
    \/ AstraInput_exchange
    \/ AstraPrepProtocol_exchange
    \/ Astra_exchange
    \/ TrioPrepProtocol_exchange
    \/ Trio_exchange
SpecDot == InitDot /\ [][NextDot]_vars

----------------------------------------------------------------------------
(* The generators at work: random shares, inputs and a product *)

PrngPrograms ==
    {<<RandomOp(1), RandomOp(2)>>,
     <<RandomsOp(1, 2, 1), RandomOp(3)>>,
     <<RandomOp(1), InputOp(1, 1, 2), RoundOp(<<>>, <<<<1, 2>>>>, 3)>>}

InitPrng == InitWith(PrngPrograms)
NextPrng ==
    \/ AstraPrepProtocol_get_random
    \/ AstraOnlineBase_get_random
    \/ AstraPrepProtocol_randoms_inst
    \/ AstraOnlineBase_randoms_inst
    \/ AstraPrepInput_exchange
    \/ AstraInput_exchange
    \/ AstraPrepProtocol_exchange
    \/ Astra_exchange
    \/ TrioPrepProtocol_exchange
    \/ Trio_exchange
SpecPrng == InitPrng /\ [][NextPrng]_vars

----------------------------------------------------------------------------
(* unsplit1 of a bit register that one of the parties has input *)

Unsplit1Programs ==
    {<<BitInputOp(n[1], n[2], 1), Unsplit1Op(1, nb, 1)>> :
        n \in {<<1, 0>>, <<0, 1>>}, nb \in {1, 2}}

InitUnsplit1 == InitWith(Unsplit1Programs)
NextUnsplit1 ==
    \/ AstraPrepInput_exchange
    \/ AstraInput_exchange
    \/ AstraPrepProtocol_unsplit1
    \/ Astra_unsplit1
    \/ Trio_unsplit1
SpecUnsplit1 == InitUnsplit1 /\ [][NextUnsplit1]_vars

\* an input of party 1, then one big-gap truncation, in place or not
TruncPrograms ==
    {<<InputOpFrom(1, 0, 1, TruncVals),
       TruncOp(<<TruncTuple(dst, 1, K - TruncError, m)>>, 1)>> :
        dst \in 1..2, m \in 0..(K - TruncError - 1)}

InitTrunc == InitState(TruncPrograms, BOOLEAN)
NextTrunc ==
    \/ AstraPrepInput_exchange
    \/ AstraInput_exchange
    \/ AstraPrepProtocol_trunc_pr
    \/ AstraOnlineBase_trunc_pr
SpecTrunc == InitTrunc /\ [][NextTrunc]_vars

----------------------------------------------------------------------------
(* An input of party 1, then one truncation of K - 1 or K bits, in place or not *)

\* the values a k-bit signed number can take
SignedRange(k) == {x \in Ring : -(2^(k - 1)) <= Signed(x) /\ Signed(x) < 2^(k - 1)}

SmallGapPrograms ==
    {<<InputOpFrom(1, 0, 1, SignedRange(km[1])),
       TruncOp(<<TruncTuple(dst, 1, km[1], km[2])>>, 1)>> :
        dst \in 1..2, km \in {K - 1, K} \X {1, K - 2}}

InitSmallGap == InitState(SmallGapPrograms, BOOLEAN)
SpecSmallGap == InitSmallGap /\ [][NextTrunc]_vars

----------------------------------------------------------------------------
(* Rounds whose batch differs between the participants *)

PairsOf(n) == SubSeq(<<<<1, 2>>, <<2, 2>>, <<1, 1>>>>, 1, n)

\* inputs of both parties, then a round of np products as the preprocessing
\* parties see it and of n[1] and n[2] as the online parties see it
FaultPrograms ==
    {<<InputOpFrom(1, 1, 1, {2}),
       RoundOpOf(<<>>, PairsOf(np), 1,
                 <<Batch(<<>>, PairsOf(n[1])), Batch(<<>>, PairsOf(n[2]))>>)>> :
        np \in 1..2, n \in (1..3) \X (1..3)}

InitFault == InitWith(FaultPrograms)
SpecFault == InitFault /\ [][NextMul]_vars

----------------------------------------------------------------------------
(* Opened values that are synced *)

SyncPrograms ==
    {<<InputOp(1, 0, 1), OpenOp(<<1>>), SyncOp>>,
     <<InputOp(1, 1, 1), RoundOp(<<>>, <<<<1, 2>>>>, 3), OpenOp(<<3>>), SyncOp>>,
     <<InputOp(1, 1, 1), OpenOp(<<1>>), SyncOp, OpenOp(<<2>>), SyncOp>>}

InitSync == InitWith(SyncPrograms)
NextSync ==
    \/ AstraPrepInput_exchange
    \/ AstraInput_exchange
    \/ AstraPrepProtocol_exchange
    \/ Astra_exchange
    \/ TrioPrepProtocol_exchange
    \/ Trio_exchange
    \/ PrepOpen
    \/ AstraMC_exchange
    \/ AstraOnlineBase_sync
    \/ AstraPrepProtocol_sync
SpecSync == InitSync /\ [][NextSync]_vars

----------------------------------------------------------------------------
(* Inputs, products and big-gap truncations, under every interleaving of the
   two phases *)

DetPrograms ==
    {<<InputOpFrom(1, 1, 1, {1, 2}), RoundOp(<<>>, <<<<1, 2>>>>, 3),
       TruncOp(<<TruncTuple(2, 3, K - TruncError, 1)>>, 1)>>,
     <<InputOpFrom(1, 1, 1, {1, 2}),
       TruncOp(<<TruncTuple(3, 1, K - TruncError, 1)>>, 1),
       RoundOp(<<<<<<1, 3>>, <<2, 2>>>>>>, <<<<3, 3>>>>, 1)>>}

InitDet == InitState(DetPrograms, BOOLEAN)
NextDet ==
    \/ AstraPrepInput_exchange
    \/ AstraInput_exchange
    \/ AstraPrepProtocol_exchange
    \/ Astra_exchange
    \/ TrioPrepProtocol_exchange
    \/ Trio_exchange
    \/ AstraPrepProtocol_trunc_pr
    \/ AstraOnlineBase_trunc_pr
SpecDet == InitDet /\ [][NextDet]_vars

----------------------------------------------------------------------------
(* Sums, scalar products and constants of inputs and of products *)

LinearPrograms ==
    {<<InputOp(1, 1, 1), AddOp(1, 2, 3), OpenOp(<<3>>)>>}
    \cup {<<InputOp(1, 1, 1), RoundOp(<<>>, <<<<1, 2>>>>, 3), AddOp(3, b, 2)>> :
             b \in {1, 3}}
    \cup {<<InputOpFrom(1, 1, 1, {2, Mod - 1}), ScaleOp(a, c, 3), OpenOp(<<3>>)>> :
             a \in 1..2, c \in Ring}
    \cup {<<InputOp(1, 1, 1), RoundOp(<<>>, <<<<1, 2>>>>, 3), ScaleOp(3, c, 3)>> :
             c \in {0, 3, Mod - 1}}
    \cup {<<InputOpFrom(n[1], n[2], 1, {2, Mod - 1}), ConstOp(c, 2), AddOp(1, 2, 3),
            OpenOp(<<2, 3>>)>> : n \in {<<1, 0>>, <<0, 1>>}, c \in Ring}

InitLinear == InitWith(LinearPrograms)
NextLinear ==
    \/ AstraPrepInput_exchange
    \/ AstraInput_exchange
    \/ AstraPrepProtocol_exchange
    \/ Astra_exchange
    \/ TrioPrepProtocol_exchange
    \/ Trio_exchange
    \/ PrepLocal
    \/ OnlineLocal
    \/ PrepOpen
    \/ AstraMC_exchange
SpecLinear == InitLinear /\ [][NextLinear]_vars

----------------------------------------------------------------------------
(* Every operation that uses the tape, in programs of three or four *)

OneInput == InputOpFrom(1, 0, 1, {1})
OneBitInput == [BitInputOp(0, 1, 1) EXCEPT !.vals = {1}]
BigTuple(dst) == TruncTuple(dst, 1, K - TruncError, 1)
SmallTuple(dst) == TruncTuple(dst, 1, K, 1)

TapePrograms ==
    {<<OneInput, RoundOp(<<>>, <<<<1, 1>>>>, 2), TruncOp(<<SmallTuple(3)>>, 1),
       RandomOp(1)>>,
     <<OneInput, TruncOp(<<BigTuple(2), SmallTuple(3)>>, 1),
       TruncOp(<<BigTuple(1)>>, 1)>>,
     <<OneInput, TruncOp(<<SmallTuple(2)>>, 1), TruncOp(<<BigTuple(3)>>, 1),
       RoundOp(<<<<<<1, 2>>>>>>, <<>>, 1)>>,
     <<OneBitInput, Unsplit1Op(1, 1, 1), UnsplitOp(1, 1, 2, 3), RandomsOp(1, 1, 1)>>,
     <<RandomOp(2), OneBitInput, UnsplitOp(1, 2, 1, 2), Unsplit1Op(1, 1, 3)>>}

InitTape == InitState(TapePrograms, BOOLEAN)
NextTape ==
    \/ AstraPrepInput_exchange
    \/ AstraInput_exchange
    \/ AstraPrepProtocol_exchange
    \/ Astra_exchange
    \/ TrioPrepProtocol_exchange
    \/ Trio_exchange
    \/ AstraPrepProtocol_get_random
    \/ AstraOnlineBase_get_random
    \/ AstraPrepProtocol_randoms_inst
    \/ AstraOnlineBase_randoms_inst
    \/ AstraPrepProtocol_unsplit1
    \/ Astra_unsplit1
    \/ Trio_unsplit1
    \/ AstraPrepProtocol_unsplit
    \/ AstraOnlineBase_unsplit
    \/ AstraPrepProtocol_trunc_pr
    \/ AstraOnlineBase_trunc_pr
SpecTape == InitTape /\ [][NextTape]_vars

----------------------------------------------------------------------------
(* The tape files of the protocol instances *)

\* threads of the protocol instances that open files
Threads == 0..1
\* AstraBase::suffix of an instance on which set_suffix has not been called
Suffixes == {""}

\* T::type_short() up to the domain: "astra-" or "trio-" for both phases
type_short == proto

\* get_prep_sub_dir<T>(n_players, preprocessing): the directory
\* Player-Data/<n_players>-<type_short>/ for both phases
get_prep_sub_dir(n_players, preprocessing) == <<"Player-Data/", n_players, "-", type_short, "/">>

\* AstraBase::get_filename with base = 1, whichever the phase
get_filename_NoBase(preprocessing, name, suffix, num_players, my_num, thread_num) ==
    <<get_prep_sub_dir(num_players + 1, preprocessing), name, suffix,
      "-P", my_num + 1, "-T", thread_num>>
\* AstraBase::get_filename: the file name as the tuple of the strings it is
\* the concatenation of; base shifts the online party numbers 0, 1 to the
\* preprocessing party numbers 1, 2 and the two players to three
get_filename(preprocessing, name, suffix, num_players, my_num, thread_num) ==
    LET base == IF preprocessing THEN 0 ELSE 1
    IN  <<get_prep_sub_dir(num_players + base, preprocessing), name, suffix,
          "-P", my_num + base, "-T", thread_num>>

\* the handle of one opened file: preprocessing parties are numbered 0..2
\* among three players, online parties 0..1 among two
Handle(role, my_num, thread_num, mode, file) ==
    [role |-> role, my_num |-> my_num, thread |-> thread_num, mode |-> mode, file |-> file]

\* AstraPrepProtocol::init_prep in thread t of preprocessing party p, called
\* by set_suffix or by the first store: only parties 1 and 2 open a file
AstraPrepProtocol_init_prep ==
    \E p \in PrepParties, t \in Threads, suffix \in Suffixes :
        /\ files' = files \cup
               (IF p > 0
                THEN {Handle("prep", p, t, "write",
                             get_filename(TRUE, "Protocol", suffix, 3, p, t))}
                ELSE {})
        /\ UNCHANGED <<sock, disk, framed, unframed>>
        /\ UNCHANGED <<machineVars, streamVars, bitVars>>

\* AstraOnlineBase::init_prep in thread t of the online party with
\* P.my_num() = my_num, called by set_suffix or by the first read
AstraOnlineBase_init_prep ==
    \E my_num \in 0..1, t \in Threads, suffix \in Suffixes :
        /\ files' = files \cup
               {Handle("online", my_num, t, "read",
                       get_filename(FALSE, "Protocol", suffix, 2, my_num, t))}
        /\ UNCHANGED <<sock, disk, framed, unframed>>
        /\ UNCHANGED <<machineVars, streamVars, bitVars>>

\* AstraOnlineBase::sync of the online party with P.my_num() = 0 opens its
\* output file for writing, AstraPrepProtocol::sync of preprocessing party 1
\* opens its own for reading; T::real_shares is false in the preprocessing
OpenOutputs ==
    \E t \in Threads :
        /\ \/ files' = files \cup
                  {Handle("online", 0, t, "write",
                          get_filename(FALSE, "Outputs", "", 2, 0, t))}
           \/ files' = files \cup
                  {Handle("prep", 1, t, "read",
                          get_filename(TRUE, "Outputs", "", 3, 1, t))}
        /\ UNCHANGED <<sock, disk, framed, unframed>>
        /\ UNCHANGED <<machineVars, streamVars, bitVars>>

InitFiles == InitWith({<<>>})
NextFiles ==
    \/ AstraPrepProtocol_init_prep
    \/ AstraOnlineBase_init_prep
    \/ OpenOutputs
SpecFiles == InitFiles /\ [][NextFiles]_vars

----------------------------------------------------------------------------
(* Length-prefixed buffers on sockets and in files *)

\* the length fields on the network have LENGTH_SIZE bytes; the length field
\* of a file is a size_t
LENGTH_SIZE == 4
sizeof_size_t == 8

\* the buffers that are sent and written: empty, one byte, two bytes, and
\* 256 bytes, whose length does not fit in one byte
Payloads == {<<>>, <<7>>, <<0, 255>>, [i \in 1..256 |-> 256 - i]}

\* at most MaxFrames buffers are sent and written in a run
MaxFrames == 2
FrameRoom == Len(framed.net) + Len(framed.file) < MaxFrames

\* lengths from TooLong on stand for every length that no socket or file of
\* the model holds
TooLong == 256 * 256 * 256

\* encode_length(buf, len, n_bytes): the n_bytes low bytes of len, the least
\* significant first
RECURSIVE encode_length(_, _)
encode_length(len, n_bytes) ==
    IF n_bytes = 0 THEN <<>>
    ELSE <<len % 256>> \o encode_length(len \div 256, n_bytes - 1)

\* decode_length(buf, n_bytes): the number whose bytes buf[1..n_bytes] are,
\* the least significant first
RECURSIVE decode_from(_, _, _)
decode_from(buf, i, n_bytes) ==
    IF i > n_bytes THEN 0
    ELSE LET high == decode_from(buf, i + 1, n_bytes)
         IN  IF high >= TooLong \div 256 /\ high > 0 THEN TooLong
             ELSE buf[i] + 256 * high
decode_length(buf, n_bytes) == decode_from(buf, 1, n_bytes)

\* s.write((char*)&len, sizeof(len)): the bytes of a size_t in the order of
\* the host, which is little-endian on the x86-64 and ARM64 builds
write_size_t(len) == encode_length(len, sizeof_size_t)
\* s.read((char*)&size, sizeof(size))
read_size_t(buf) == decode_length(buf, sizeof_size_t)

\* the number of bytes octetStream::Receive takes as the length field
Receive_length_size_Eight == sizeof_size_t
Receive_length_size == LENGTH_SIZE

\* octetStream::Send: the length in LENGTH_SIZE bytes, then the data
octetStream_Send ==
    \E payload \in Payloads :
        /\ FrameRoom
        /\ sock' = sock \o encode_length(Len(payload), LENGTH_SIZE) \o payload
        /\ framed' = [framed EXCEPT !.net = Append(@, payload)]
        /\ UNCHANGED <<files, disk, unframed>>
        /\ UNCHANGED <<machineVars, streamVars, bitVars>>

\* octetStream::Receive: blocks until the length field and then as many
\* bytes as it says have arrived
octetStream_Receive ==
    /\ Len(sock) >= Receive_length_size
    /\ \E nlen \in {decode_length(SubSeq(sock, 1, Receive_length_size), Receive_length_size)} :
        /\ Len(sock) >= Receive_length_size + nlen
        /\ unframed' = [unframed EXCEPT !.net =
               Append(@, SubSeq(sock, Receive_length_size + 1, Receive_length_size + nlen))]
        /\ sock' = SubSeq(sock, Receive_length_size + nlen + 1, Len(sock))
    /\ UNCHANGED <<files, disk, framed>>
    /\ UNCHANGED <<machineVars, streamVars, bitVars>>

\* octetStream::output: the length as a size_t, then the data
octetStream_output ==
    \E payload \in Payloads :
        /\ FrameRoom
        /\ disk' = disk \o write_size_t(Len(payload)) \o payload
        /\ framed' = [framed EXCEPT !.file = Append(@, payload)]
        /\ UNCHANGED <<files, sock, unframed>>
        /\ UNCHANGED <<machineVars, streamVars, bitVars>>

\* octetStream::input at a position where the writer has flushed something:
\* IO_Error("not enough data") if the file ends within the length or the data
octetStream_input ==
    /\ unframed.err = ""
    /\ disk # <<>>
    /\ IF Len(disk) < sizeof_size_t
       THEN /\ unframed' = [unframed EXCEPT !.err = "not enough data"]
            /\ disk' = <<>>
       ELSE \E size \in {read_size_t(SubSeq(disk, 1, sizeof_size_t))} :
                IF Len(disk) < sizeof_size_t + size
                THEN /\ unframed' = [unframed EXCEPT !.err = "not enough data"]
                     /\ disk' = <<>>
                ELSE /\ unframed' = [unframed EXCEPT !.file =
                            Append(@, SubSeq(disk, sizeof_size_t + 1, sizeof_size_t + size))]
                     /\ disk' = SubSeq(disk, sizeof_size_t + size + 1, Len(disk))
    /\ UNCHANGED <<files, sock, framed>>
    /\ UNCHANGED <<machineVars, streamVars, bitVars>>

InitFrame == InitWith({<<>>})
NextFrame ==
    \/ octetStream_Send
    \/ octetStream_Receive
    \/ octetStream_output
    \/ octetStream_input
SpecFrame == InitFrame /\ [][NextFrame]_vars

----------------------------------------------------------------------------
(* Rounds without a product: init_mul directly followed by exchange *)

EmptyRound(dst) == RoundOp(<<>>, <<>>, dst)

EmptyPrograms ==
    {<<InputOp(1, 1, 1), EmptyRound(3), OpenOp(<<1, 2>>)>>,
     <<EmptyRound(1), InputOp(1, 0, 1), EmptyRound(1)>>,
     <<InputOp(1, 1, 1), RoundOp(<<>>, <<<<1, 2>>>>, 3), EmptyRound(3),
       OpenOp(<<3>>)>>}

InitEmpty == InitWith(EmptyPrograms)
NextEmpty ==
    \/ AstraPrepInput_exchange
    \/ AstraInput_exchange
    \/ AstraPrepProtocol_exchange
    \/ Astra_exchange
    \/ TrioPrepProtocol_exchange
    \/ Trio_exchange
    \/ PrepOpen
    \/ AstraMC_exchange
SpecEmpty == InitEmpty /\ [][NextEmpty]_vars

----------------------------------------------------------------------------
(* Truncation by no bit, of every value, on both paths *)

TruncZeroPrograms ==
    {<<InputOpFrom(1, 0, 1, Ring), TruncOp(<<TruncTuple(dst, 1, k, 0)>>, 1)>> :
        dst \in 1..2, k \in {K - TruncError, K - 1, K}}

InitTruncZero == InitState(TruncZeroPrograms, BOOLEAN)
SpecTruncZero == InitTruncZero /\ [][NextTrunc]_vars

----------------------------------------------------------------------------
(* Two-register unsplit onto fresh and onto used registers *)

UnsplitPrograms ==
    {<<OneBitInput, UnsplitOp(1, 1, 1, 3)>>,
     <<OneBitInput, UnsplitOp(1, 2, 1, 2), RandomOp(1)>>,
     <<RandomOp(3), OneBitInput, UnsplitOp(1, 1, 1, 3)>>}

InitUnsplit == InitWith(UnsplitPrograms)
NextUnsplit ==
    \/ AstraPrepInput_exchange
    \/ AstraInput_exchange
    \/ AstraPrepProtocol_get_random
    \/ AstraOnlineBase_get_random
    \/ AstraPrepProtocol_unsplit
    \/ AstraOnlineBase_unsplit
SpecUnsplit == InitUnsplit /\ [][NextUnsplit]_vars

----------------------------------------------------------------------------
(* One input of each online party, their sum, and its opening *)

MaskPrograms == {<<InputOpFrom(1, 1, 1, Ring), AddOp(1, 2, 3), OpenOp(<<3>>)>>}

InitMask == InitWith(MaskPrograms)
NextMask ==
    \/ AstraPrepInput_exchange
    \/ AstraInput_exchange
    \/ PrepLocal
    \/ OnlineLocal
    \/ PrepOpen
    \/ AstraMC_exchange
SpecMask == InitMask /\ [][NextMask]_vars

----------------------------------------------------------------------------
(* Rounds that hold dot products and plain products together *)

\* after two inputs, one round of a dot product closed with next_dotprod
\* followed by a plain product, prepare_mul after the last next_dotprod
MixedPrograms ==
    {<<InputOp(1, 1, 1), RoundOp(<<d>>, <<ab>>, 2)>> :
        d \in {<<<<1, 2>>>>, <<<<1, 2>>, <<2, 2>>>>},
        ab \in {<<1, 1>>, <<1, 2>>}}

InitMixed == InitWith(MixedPrograms)
NextMixed ==
    \/ AstraPrepInput_exchange
    \/ AstraInput_exchange
    \/ AstraPrepProtocol_exchange
    \/ Astra_exchange
    \/ TrioPrepProtocol_exchange
    \/ Trio_exchange
SpecMixed == InitMixed /\ [][NextMixed]_vars

----------------------------------------------------------------------------
(* Streaming: the two phases run side by side over named pipes *)

\* the records a named pipe holds before a write blocks, and the messages a
\* connection holds before a send blocks
FifoCap == 1
NetCap == 1

\* the three preprocessing processes and the two online processes, the
\* latter by P.my_num()
PrepProc(p) == <<"prep", p>>
OnlineProc(n) == <<"online", n>>
Procs == {PrepProc(p) : p \in PrepParties} \cup {OnlineProc(n) : n \in 0..1}

\* the tape and the output file of a process, by AstraBase::get_filename
FileOf(proc, name) ==
    IF proc[1] = "prep" THEN get_filename(TRUE, name, "", 3, proc[2], 0)
    ELSE get_filename(FALSE, name, "", 2, proc[2], 0)

\* mkfifo $dir/{Protocol,Outputs}-P{0,1,2}-T$t, of thread 0
Fifos == {FileOf(PrepProc(p), name) : p \in PrepParties, name \in {"Protocol", "Outputs"}}

\* the calls of an instruction that can block
WriteOn(f) == [call |-> "write", f |-> f]
ReadOn(f) == [call |-> "read", f |-> f]
SendTo(proc) == [call |-> "send", peer |-> proc]
ReceiveFrom(proc) == [call |-> "receive", peer |-> proc]

\* a faulty variant: the message of the other party is awaited before the
\* own message is sent
P_exchange_ReceiveFirst(other) == <<ReceiveFrom(other), SendTo(other)>>

\* octetStream::exchange between the two online parties: the own message is
\* sent while the message of the other is received
P_exchange(other) == <<SendTo(other), ReceiveFrom(other)>>

\* AstraPrepProtocol::store: parties 1 and 2 write a record on their tape
StoreCalls(proc) ==
    IF proc[2] > 0 THEN <<WriteOn(FileOf(proc, "Protocol"))>> ELSE <<>>

\* the blocking calls of a preprocessing process in one instruction
PrepCalls(proc, op) ==
    CASE op.kind = "round" ->
             (IF proc[2] = 0 THEN <<SendTo(PrepProc(2))>>
              ELSE IF proc[2] = 2 THEN <<ReceiveFrom(PrepProc(0))>> ELSE <<>>)
             \o StoreCalls(proc)
      [] op.kind \in {"input", "random"} -> StoreCalls(proc)
      [] op.kind = "sync" ->
             IF proc[2] = 1
             THEN <<ReadOn(FileOf(proc, "Outputs")),
                    SendTo(PrepProc(0)), SendTo(PrepProc(2))>>
             ELSE <<ReceiveFrom(PrepProc(1))>>

\* the blocking calls of an online process in one instruction
OnlineCalls(proc, op) ==
    CASE op.kind \in {"round", "input"} ->
             <<ReadOn(FileOf(proc, "Protocol"))>>
             \o P_exchange(OnlineProc(1 - proc[2]))
      [] op.kind = "random" -> <<ReadOn(FileOf(proc, "Protocol"))>>
      [] op.kind = "sync" ->
             IF proc[2] = 0 THEN <<WriteOn(FileOf(proc, "Outputs"))>> ELSE <<>>

Calls(proc, op) ==
    IF proc[1] = "prep" THEN PrepCalls(proc, op) ELSE OnlineCalls(proc, op)

\* the call process proc is in, if it is in one
InCall(proc) ==
    /\ place[proc].op < Len(prog)
    /\ place[proc].call < Len(Calls(proc, prog[place[proc].op + 1]))
TheCall(proc) == Calls(proc, prog[place[proc].op + 1])[place[proc].call + 1]
Called(proc, call) == InCall(proc) /\ TheCall(proc).call = call

\* the end of a pipe a call uses, and the other end
EndOf(call) == IF call = "write" THEN "w" ELSE "r"
OtherEnd(end) == IF end = "w" THEN "r" ELSE "w"

Returned(proc) ==
    /\ place' = [place EXCEPT ![proc].call = @ + 1]

\* prep.open(name) and outputs.open(name) on first use: the process enters
\* open(), which on a named pipe waits for the other end
fifo_open_call(proc) ==
    /\ InCall(proc)
    /\ TheCall(proc).call \in {"write", "read"}
    /\ LET f == TheCall(proc).f
           end == EndOf(TheCall(proc).call)
       IN /\ fifo[f][end] = "closed"
          /\ fifo' = [fifo EXCEPT ![f][end] = "opening"]
    /\ UNCHANGED <<place, net>>
    /\ UNCHANGED <<machineVars, ioVars, bitVars>>

\* open() returns once the other end is open or being opened
fifo_open_return(proc) ==
    /\ InCall(proc)
    /\ TheCall(proc).call \in {"write", "read"}
    /\ LET f == TheCall(proc).f
           end == EndOf(TheCall(proc).call)
       IN /\ fifo[f][end] = "opening"
          /\ fifo[f][OtherEnd(end)] # "closed"
          /\ fifo' = [fifo EXCEPT ![f][end] = "open"]
    /\ UNCHANGED <<place, net>>
    /\ UNCHANGED <<machineVars, ioVars, bitVars>>

\* os.output(file) and flush: blocks while the pipe is full
octetStream_output_fifo(proc) ==
    /\ Called(proc, "write")
    /\ LET f == TheCall(proc).f
       IN /\ fifo[f].w = "open"
          /\ fifo[f].n < FifoCap
          /\ fifo' = [fifo EXCEPT ![f].n = @ + 1]
    /\ Returned(proc)
    /\ UNCHANGED net
    /\ UNCHANGED <<machineVars, ioVars, bitVars>>

\* os.input(file): blocks while the pipe is empty
octetStream_input_fifo(proc) ==
    /\ Called(proc, "read")
    /\ LET f == TheCall(proc).f
       IN /\ fifo[f].r = "open"
          /\ fifo[f].n > 0
          /\ fifo' = [fifo EXCEPT ![f].n = @ - 1]
    /\ Returned(proc)
    /\ UNCHANGED net
    /\ UNCHANGED <<machineVars, ioVars, bitVars>>

\* P.send_to and the sending half of an exchange
Player_send_to(proc) ==
    /\ Called(proc, "send")
    /\ LET link == <<proc, TheCall(proc).peer>>
       IN /\ net[link] < NetCap
          /\ net' = [net EXCEPT ![link] = @ + 1]
    /\ Returned(proc)
    /\ UNCHANGED fifo
    /\ UNCHANGED <<machineVars, ioVars, bitVars>>

\* P.receive_player and the receiving half of an exchange
Player_receive_player(proc) ==
    /\ Called(proc, "receive")
    /\ LET link == <<TheCall(proc).peer, proc>>
       IN /\ net[link] > 0
          /\ net' = [net EXCEPT ![link] = @ - 1]
    /\ Returned(proc)
    /\ UNCHANGED fifo
    /\ UNCHANGED <<machineVars, ioVars, bitVars>>

\* the instruction is over and the process goes on to the next one
next_instruction(proc) ==
    /\ place[proc].op < Len(prog)
    /\ place[proc].call = Len(Calls(proc, prog[place[proc].op + 1]))
    /\ place' = [place EXCEPT ![proc] = [op |-> @.op + 1, call |-> 0]]
    /\ UNCHANGED <<fifo, net>>
    /\ UNCHANGED <<machineVars, ioVars, bitVars>>

\* inputs, products, random shares and syncs, a sync first, last and between
StreamPrograms ==
    {<<InputOp(1, 1, 1), RoundOp(<<>>, <<<<1, 2>>>>, 3), SyncOp, RandomOp(1)>>,
     <<SyncOp, InputOp(1, 1, 1), SyncOp>>,
     <<RandomOp(1), RandomOp(2), RoundOp(<<>>, <<<<1, 2>>>>, 3), SyncOp>>}

InitStream ==
    /\ InitMachine(StreamPrograms, {TRUE})
    /\ place = [proc \in Procs |-> [op |-> 0, call |-> 0]]
    /\ fifo = [f \in Fifos |-> [w |-> "closed", r |-> "closed", n |-> 0]]
    /\ net = [link \in Procs \X Procs |-> 0]
    /\ NoStream

NextStream ==
    \E proc \in Procs :
        \/ fifo_open_call(proc)
        \/ fifo_open_return(proc)
        \/ octetStream_output_fifo(proc)
        \/ octetStream_input_fifo(proc)
        \/ Player_send_to(proc)
        \/ Player_receive_player(proc)
        \/ next_instruction(proc)

\* every process is scheduled again and again
StreamFairness ==
    \A proc \in Procs :
        /\ WF_vars(fifo_open_call(proc))
        /\ WF_vars(fifo_open_return(proc))
        /\ WF_vars(octetStream_output_fifo(proc))
        /\ WF_vars(octetStream_input_fifo(proc))
        /\ WF_vars(Player_send_to(proc))
        /\ WF_vars(Player_receive_player(proc))
        /\ WF_vars(next_instruction(proc))

SpecStream == InitStream /\ [][NextStream]_vars /\ StreamFairness

----------------------------------------------------------------------------
(* octetStream: whole bytes and packed bits *)

\* the longest sequence of store_bits and append calls on one stream
MaxCalls == 3
\* the values handed to store_bits, with bits set above every width
BitVals == {85, 170}
\* the bytes handed to append
ByteVals == {60, 195}
\* store_bits(char, int) and get_bits(int) take 1 to 7 bits
BitWidths == 1..7

\* bit i of the byte x
BitOf(x, i) == (x \div 2^i) % 2
\* x | y on bytes
BitOr(x, y) ==
    LET b(i) == IF BitOf(x, i) = 1 \/ BitOf(y, i) = 1 THEN 2^i ELSE 0
    IN b(0) + b(1) + b(2) + b(3) + b(4) + b(5) + b(6) + b(7)

\* BitBuffer(): no bits, an empty buffer
BitBuffer == [n |-> 0, buffer |-> 0]
\* a newly constructed stream: data is the bytes from data up to end, ptr
\* the read head, bits[1] the buffer of store_bits (bits[0] in the code)
\* and bits[2] the buffer of get_bits (bits[1] in the code)
octetStream_new == [data |-> <<>>, ptr |-> 0, bits |-> <<BitBuffer, BitBuffer>>]

\* reset_read_head
octetStream_reset_read_head(s) == [s EXCEPT !.ptr = 0, !.bits[2].n = 0]
\* reset_write_head: the length and both bit counts go to zero; the buffer
\* of store_bits keeps its bits
octetStream_reset_write_head(s) ==
    octetStream_reset_read_head([s EXCEPT !.data = <<>>, !.bits[1].n = 0])
\* clear: the allocation is freed and reset() zeroes the four pointers; the
\* bit buffers are not touched
octetStream_clear(s) == [s EXCEPT !.data = <<>>, !.ptr = 0]

\* flush_bits: the bit count is zeroed first, so the append(1) inside
\* store_int<1> does not flush again; the buffer becomes the next byte
octetStream_flush_bits(s) ==
    [s EXCEPT !.bits[1] = BitBuffer, !.data = Append(@, s.bits[1].buffer)]
\* append(x, l): pending bits are flushed, then the l bytes of x follow
octetStream_append(s, x) ==
    LET t == IF s.bits[1].n # 0 THEN octetStream_flush_bits(s) ELSE s
    IN [t EXCEPT !.data = @ \o x]
\* store_bits<N>(a): append(0) when the bits do not fit into the buffer,
\* then buffer |= (a & ((1 << N) - 1)) << n and n += N
octetStream_store_bits(s, a, N) ==
    LET t == IF s.bits[1].n > 8 - N THEN octetStream_append(s, <<>>) ELSE s
        n == t.bits[1].n
    IN [t EXCEPT !.bits[1] =
            [n |-> n + N,
             buffer |-> BitOr(t.bits[1].buffer, (a % 2^N) * 2^n) % 256]]

\* consume(l) throws "insufficient data" when ptr + l > end
Insufficient(s, l) == s.ptr + l > Len(s.data)
\* consume(l) otherwise: the bits left for get_bits are dropped and the
\* read head moves on
octetStream_consume(s, l) == [s EXCEPT !.bits[2].n = 0, !.ptr = @ + l]
\* get_int<1>: the byte under the read head
octetStream_get_int(s) == s.data[s.ptr + 1]

\* a faulty variant: the lowest bits of the buffer are returned
get_bits_result_Low(buffer, n, N) == buffer % 2^N

\* (buffer >> (8 - n)) & ((1 << N) - 1)
get_bits_result(buffer, n, N) == (buffer \div 2^(8 - n)) % 2^N

\* get_bits<N> reads a byte when fewer than N bits are left
Reloads(s, N) == s.bits[2].n < N
\* get_bits<N>(): the stream afterwards and the value returned
octetStream_get_bits(s, N) ==
    LET t == IF Reloads(s, N)
             THEN [octetStream_consume(s, 1) EXCEPT
                      !.bits[2] = [n |-> 8, buffer |-> octetStream_get_int(s)]]
             ELSE s
    IN [s |-> [t EXCEPT !.bits[2].n = @ - N],
        res |-> get_bits_result(t.bits[2].buffer, t.bits[2].n, N)]

Writing == stage \in {"write", "reset"}
\* after a reset the newly constructed stream gets the same call
OnTwin(f(_)) == IF stage = "reset" THEN f(twin) ELSE twin

\* a call of store_bits(a, N)
store_bits_call ==
    /\ Writing
    /\ Len(written) < MaxCalls
    /\ \E a \in BitVals, N \in BitWidths :
        LET f(s) == octetStream_store_bits(s, a, N)
        IN /\ stream' = f(stream)
           /\ twin' = OnTwin(f)
           /\ written' = Append(written, [kind |-> "bits", a |-> a, n |-> N])
    /\ UNCHANGED <<readback, stage>>
    /\ UNCHANGED <<machineVars, ioVars, streamVars>>

\* a call of append(x, 1) with one byte
append_call ==
    /\ Writing
    /\ Len(written) < MaxCalls
    /\ \E b \in ByteVals :
        LET f(s) == octetStream_append(s, <<b>>)
        IN /\ stream' = f(stream)
           /\ twin' = OnTwin(f)
           /\ written' = Append(written, [kind |-> "byte", a |-> b, n |-> 8])
    /\ UNCHANGED <<readback, stage>>
    /\ UNCHANGED <<machineVars, ioVars, streamVars>>

\* the writer flushes the pending bits, as append does: flush_bits when
\* bits are pending. A stream that was not reset is then read back.
flush_call ==
    /\ Writing
    /\ LET f(s) == octetStream_append(s, <<>>)
       IN /\ stream' = f(stream)
          /\ twin' = OnTwin(f)
    /\ stage' = IF stage = "write" THEN "read" ELSE stage
    /\ UNCHANGED <<written, readback>>
    /\ UNCHANGED <<machineVars, ioVars, streamVars>>

\* a call of reset_write_head; a new stream is constructed next to it
reset_write_head_call ==
    /\ stage = "write"
    /\ stream' = octetStream_reset_write_head(stream)
    /\ twin' = octetStream_new
    /\ stage' = "reset"
    /\ UNCHANGED <<written, readback>>
    /\ UNCHANGED <<machineVars, ioVars, streamVars>>

\* a call of clear; a new stream is constructed next to it
clear_call ==
    /\ stage = "write"
    /\ stream' = octetStream_clear(stream)
    /\ twin' = octetStream_new
    /\ stage' = "reset"
    /\ UNCHANGED <<written, readback>>
    /\ UNCHANGED <<machineVars, ioVars, streamVars>>

\* the call the reader has to match next
NextRead == written[Len(readback) + 1]

\* the reader matches a store_bits(a, N) with get_bits(N)
get_bits_call ==
    /\ stage = "read"
    /\ Len(readback) < Len(written)
    /\ NextRead.kind = "bits"
    /\ IF Reloads(stream, NextRead.n) /\ Insufficient(stream, 1)
       THEN /\ stage' = "failed"
            /\ UNCHANGED <<stream, readback>>
       ELSE /\ \E r \in {octetStream_get_bits(stream, NextRead.n)} :
                /\ stream' = r.s
                /\ readback' = Append(readback, r.res)
            /\ UNCHANGED stage
    /\ UNCHANGED <<twin, written>>
    /\ UNCHANGED <<machineVars, ioVars, streamVars>>

\* the reader matches an appended byte with get_int<1>, that is consume(1)
consume_call ==
    /\ stage = "read"
    /\ Len(readback) < Len(written)
    /\ NextRead.kind = "byte"
    /\ IF Insufficient(stream, 1)
       THEN /\ stage' = "failed"
            /\ UNCHANGED <<stream, readback>>
       ELSE /\ stream' = octetStream_consume(stream, 1)
            /\ readback' = Append(readback, octetStream_get_int(stream))
            /\ UNCHANGED stage
    /\ UNCHANGED <<twin, written>>
    /\ UNCHANGED <<machineVars, ioVars, streamVars>>

\* a newly constructed stream next to an idle machine
InitBits ==
    /\ InitMachine({<<>>}, {TRUE})
    /\ place = <<>>
    /\ fifo = <<>>
    /\ net = <<>>
    /\ stream = octetStream_new
    /\ twin = octetStream_new
    /\ written = <<>>
    /\ readback = <<>>
    /\ stage = "write"

\* writing, then reading back
NextBits ==
    \/ store_bits_call
    \/ append_call
    \/ flush_call
    \/ get_bits_call
    \/ consume_call
SpecBits == InitBits /\ [][NextBits]_vars

\* writing, a reset, and writing again
NextReset ==
    \/ store_bits_call
    \/ append_call
    \/ flush_call
    \/ reset_write_head_call
    \/ clear_call
SpecReset == InitBits /\ [][NextReset]_vars

----------------------------------------------------------------------------
(* Properties *)

\* the online parties complete the operation prog[pc + 1] in this step
OnlineStep(kind) ==
    /\ pc' = pc + 1
    /\ prog[pc + 1].kind = kind
    /\ err' = NoError

\* Open(s) as limb0 + limb1 of online party 1 plus limb1 of online party 2,
\* for register r of the online registers S
AstraOpenOf(S, r) == Add(Add(S[1][r][1], S[1][r][2]), S[2][r][2])
AstraOpen(r) == AstraOpenOf(onS, r)
\* Open(s) as limb0 of online party 1 plus limb1 of online party 2
TrioOpenOf(S, r) == Add(S[1][r][1], S[2][r][2])
TrioOpen(r) == TrioOpenOf(onS, r)
\* Open(s) as limb0 of online party 2 plus limb1 of online party 1
TrioOpen2Of(S, r) == Add(S[2][r][1], S[1][r][2])

\* C1: in an Astra round of multiplications run by the preprocessing
\* parties and then by the online parties against the records written, every
\* returned sharing opens to the product of what its operands opened to
\* before the round, whatever the generators gave.
C1_AstraMulCorrect ==
    [][(OnlineStep("round") /\ proto = "astra") =>
        LET op == prog[pc + 1] IN
        \A k \in 1..Len(op.pairs) :
            AstraOpenOf(onS', op.dst + Len(op.dots) + k - 1) =
                Mul(AstraOpen(op.pairs[k][1]), AstraOpen(op.pairs[k][2]))]_vars

\* an Astra product of two operands with both masks non-zero has been formed
C1_Witness ==
    /\ proto = "astra"
    /\ pc = 3
    /\ prog[3] = RoundOp(<<>>, <<<<3, 1>>>>, 2)
    /\ err = NoError
    /\ AstraOpen(2) = Mul(AstraOpen(3), AstraOpen(1))
    /\ AstraOpen(2) # 0
    /\ onS[1][3][2] # 0 /\ onS[2][3][2] # 0

\* C2: in a Trio round of multiplications every returned sharing opens to
\* the product of what its operands opened to before the round, under both
\* ways of opening a Trio sharing.
C2_TrioMulCorrect ==
    [][(OnlineStep("round") /\ proto = "trio") =>
        LET op == prog[pc + 1] IN
        \A k \in 1..Len(op.pairs) :
            LET z == op.dst + Len(op.dots) + k - 1 IN
            /\ TrioOpenOf(onS', z) =
                   Mul(TrioOpen(op.pairs[k][1]), TrioOpen(op.pairs[k][2]))
            /\ TrioOpen2Of(onS', z) = TrioOpenOf(onS', z)]_vars

\* a Trio product of two operands with both masks non-zero has been formed
C2_Witness ==
    /\ proto = "trio"
    /\ pc = 3
    /\ prog[3] = RoundOp(<<>>, <<<<3, 1>>>>, 2)
    /\ err = NoError
    /\ TrioOpen(2) = Mul(TrioOpen(3), TrioOpen(1))
    /\ TrioOpen(2) # 0
    /\ onS[1][3][2] # 0 /\ onS[2][3][2] # 0

\* C4: after an input round every share pair returned for an input of
\* online party q opens to the value q submitted, the j-th returned share
\* belonging to the j-th value submitted in the round, for AstraInput and
\* for TrioInput.
C4_InputRoundTrip ==
    [][OnlineStep("input") =>
        LET op == prog[pc + 1] IN
        \A q \in OnlineParties : \A j \in 1..op.n[q] :
            OpenOf(proto, onS', op.dst + (IF q = 1 THEN 0 ELSE op.n[1]) + j - 1)
                = inputs'[q][Len(inputs[q]) + j]]_vars

\* both parties have submitted distinct values in one round, party 1 two
C4_Witness ==
    /\ pc = 1
    /\ prog[1].n = <<2, 1>>
    /\ err = NoError
    /\ inputs[1][1] # inputs[1][2]
    /\ Open(1) = inputs[1][1] /\ Open(2) = inputs[1][2] /\ Open(3) = inputs[2][1]
    /\ onS[1][1][2] # 0 /\ onS[2][3][2] # 0

\* C5: in an opening, for every sharing of the batch party 1 sends
\* m - lambda1 and party 2 sends -lambda2 (m the common masked value), and
\* both parties get m - lambda1 - lambda2, in the order of the batch.
C5_Opening ==
    (pc > 0 /\ prog[pc].kind = "open") =>
        \A i \in 1..Len(prog[pc].regs) :
            LET r == prog[pc].regs[i]
                m == CommonM(proto, onS[1][r])
                l1 == Lambda(onS[1][r])
                l2 == Lambda(onS[2][r])
            IN /\ wire[1][i] = Sub(m, l1)
               /\ wire[2][i] = Neg(l2)
               /\ opened[1][i] = Sub(Sub(m, l1), l2)
               /\ opened[2][i] = opened[1][i]

\* a batch of three sharings with different clear values has been opened,
\* the first a product with both masks non-zero
C5_Witness ==
    /\ pc = 3
    /\ prog[3] = OpenOp(<<2, 3, 1>>)
    /\ opened[1] = opened[2]
    /\ opened[1][1] # opened[1][2] /\ opened[1][2] # opened[1][3]
    /\ opened[1][2] = Mul(opened[1][3], opened[1][1])
    /\ onS[1][3][2] # 0 /\ onS[2][3][2] # 0

\* the sum of the products of the openings of the terms of a dot product
DotValue(terms) ==
    SumSeq([k \in 1..Len(terms) |-> Mul(Open(terms[k][1]), Open(terms[k][2]))])

\* C7: in a round of dot products each online party reads one record with
\* one (gamma, lambda) entry per dot product and sends one ring element per
\* dot product, whatever the lengths, and every finalized sharing opens to
\* the sum of the products of its terms' openings.
C7_DotProduct ==
    [][OnlineStep("round") =>
        LET op == prog[pc + 1] IN
        /\ \A q \in OnlineParties :
               /\ rd'[q] = rd[q] + 1
               /\ Len(NextRecord(q)) = 2 * RoundCount(op)
               /\ Len(wire'[q]) = RoundCount(op)
        /\ \A d \in 1..Len(op.dots) :
               OpenOf(proto, onS', op.dst + d - 1) = DotValue(op.dots[d])]_vars

\* a dot product of length 2 over operands with non-zero masks has been
\* finalized after one entry read and one element sent
C7_Witness ==
    /\ pc = 3
    /\ prog[3] = RoundOp(<<<<<<3, 1>>, <<3, 3>>>>>>, <<>>, 2)
    /\ err = NoError
    /\ Len(wire[1]) = 1 /\ Len(wire[2]) = 1
    /\ Len(tape[1][3]) = 2
    /\ Open(2) = Add(Mul(Open(3), Open(1)), Mul(Open(3), Open(3)))
    /\ Open(2) # 0 /\ Mul(Open(3), Open(1)) # 0 /\ Mul(Open(3), Open(3)) # 0
    /\ onS[1][3][2] # 0 /\ onS[2][3][2] # 0

\* the n-th values of two streams agree as far as both have been drawn
SameStream(s, t) ==
    \A n \in 1..Len(s) : n <= Len(t) => s[n] = t[n]

\* C8 as stated: what party i has drawn from prng[0] is what party i - 1
\* has drawn from its prng[1], value by value.
C8_AsStated ==
    \A i \in PrepParties : \A g \in Gens :
        SameStream(Stream(i, g, 0), Stream((i - 1) % 3, g, 1))

\* C8, amended: what party i has drawn from prng[1] is what party i - 1 has
\* drawn from its prng[0], value by value: the seed a party generates for
\* its prng[0] goes to the next party, which seeds its prng[1] with it.
C8_PrngIndexing ==
    \A i \in PrepParties : \A g \in Gens :
        /\ prngSeed[i][g][2] = prngSeed[(i - 1) % 3][g][1]
        /\ SameStream(Stream(i, g, 1), Stream((i - 1) % 3, g, 0))

\* every party has drawn from both generators of prng_protocol, and the
\* three streams differ from each other
C8_Witness ==
    /\ \A i \in PrepParties :
           /\ Len(Stream(i, 0, 0)) > 0
           /\ Stream(i, 0, 1) = Stream((i - 1) % 3, 0, 0)
    /\ Stream(0, 0, 0)[1] # Stream(1, 0, 0)[1]
    /\ Stream(0, 0, 0)[1] # Stream(2, 0, 0)[1]

\* the clear bits of bit register r: the masked bits with both mask shares
\* removed
BitOpen(r) ==
    IF proto = "astra"
    THEN Xor(Xor(onB[1][r][1], onB[1][r][2]), onB[2][r][2])
    ELSE Xor(onB[1][r][1], onB[2][r][2])

\* C9: after unsplit1 of n bits of a bit register, run by the preprocessing
\* parties and then by the online parties against the record written,
\* destination register i opens to bit i of the clear bits as 0 or 1, for
\* every i < n, for Astra and for Trio (a Trio sharing under both ways of
\* opening it).
C9_Unsplit1RoundTrip ==
    [][OnlineStep("unsplit1") =>
        LET op == prog[pc + 1] IN
        \A i \in 1..op.n :
            /\ OpenOf(proto, onS', op.dst + i - 1) = GetBit(BitOpen(op.src), i - 1)
            /\ proto = "trio" =>
                   TrioOpen2Of(onS', op.dst + i - 1) = GetBit(BitOpen(op.src), i - 1)]_vars

\* two different bits of a masked bit register have been unsplit
C9_Witness ==
    /\ pc = 2
    /\ prog[2].kind = "unsplit1"
    /\ prog[2].n = 2
    /\ GetBit(BitOpen(1), 0) # GetBit(BitOpen(1), 1)
    /\ \A i \in 1..2 : Open(i) = GetBit(BitOpen(1), i - 1)
    /\ prepB[0][1] # Zero

\* the destination and the source of a truncation tuple do not share a
\* register whose mask limb the masked value is read through
TruncSeparate(info) == proto = "astra" \/ info.dst # info.src

\* x + lambda stays within the range of the clear type
TruncNoWrap(x, lambda) ==
    IF signedShift
    THEN /\ Signed(x) + Signed(lambda) < Mod \div 2
         /\ Signed(x) + Signed(lambda) >= 0 - (Mod \div 2)
    ELSE x + lambda < Mod

\* C10 as stated: a big-gap truncation by m of an input x within
\* 2^(K - TruncError) of zero opens to exactly x >> m, whatever the mask of x
\* and the random r of party 0.
C10_AsStated ==
    [][OnlineStep("trunc") =>
        LET info == prog[pc + 1].tuples[1]
            x == Open(info.src)
        IN (TruncSeparate(info) /\ x \in TruncVals) =>
               OpenOf(proto, onS', info.dst) = RightShift(x, info.m)]_vars

\* C10: a big-gap truncation by m of x shared under the mask lambda opens to
\* ((x + lambda) >> m) - (lambda >> m), whatever the random r of party 0;
\* that is x >> m or (x >> m) + 1 when x + lambda does not wrap around.
C10_TruncLaw ==
    [][OnlineStep("trunc") =>
        LET info == prog[pc + 1].tuples[1]
            x == Open(info.src)
            lambda == Sub(CommonM(proto, onS[1][info.src]), x)
            res == OpenOf(proto, onS', info.dst)
        IN TruncSeparate(info) =>
              /\ res = Sub(RightShift(Add(x, lambda), info.m),
                           RightShift(lambda, info.m))
              /\ TruncNoWrap(x, lambda) =>
                    res \in {RightShift(x, info.m), Add(RightShift(x, info.m), 1)}]_vars

\* a truncation by one bit has opened to one more than the input shifted
C10_Witness ==
    /\ pc = 2
    /\ prog[2].kind = "trunc"
    /\ prog[2].tuples[1].m = 1
    /\ prog[2].tuples[1].dst # prog[2].tuples[1].src
    /\ inputs[1] # <<>>
    /\ Open(prog[2].tuples[1].dst) = Add(RightShift(inputs[1][1], 1), 1)
    /\ err = NoError

\* C6: every register holds the same masked value on the two online
\* parties (Astra: limb0; Trio: limb0 - limb1) after any operations both
\* have run on the tapes of the matching preprocessing run.
C6_CommonMaskedValue ==
    \A r \in Regs : CommonM(proto, onS[1][r]) = CommonM(proto, onS[2][r])

\* C3: the tape is read in the order it was written. For each online party
\* the i-th record read is the i-th record its preprocessing counterpart
\* stored, the operation that reads it is the operation that stored it, the
\* operations run so far have read all of their records and no others, no
\* read fails, and nothing is left unread when the program has finished.
C3_TapeFifo ==
    /\ err = NoError
    /\ \A q \in OnlineParties :
          /\ Len(readlog[q]) = rd[q]
          /\ rd[q] <= Len(tape[q])
          /\ Len(stored[q]) = Len(tape[q])
          /\ \A i \in 1..rd[q] :
                /\ readlog[q][i].rec = tape[q][i]
                /\ readlog[q][i].op = stored[q][i]
          /\ rd[q] = Cardinality({i \in 1..Len(stored[q]) : stored[q][i] <= pc})
          /\ (pc = Len(prog) => rd[q] = Len(tape[q]))

\* a program with a small-gap truncation has finished: the truncation has
\* read two records, the pairs of the reduced multiplication and then the
\* masks of input0, among those of the other operations
C3_Witness ==
    /\ pc = Len(prog)
    /\ err = NoError
    /\ \A q \in OnlineParties :
          /\ rd[q] = Len(tape[q])
          /\ \E i \in 1..(rd[q] - 1) :
                /\ readlog[q][i].op = readlog[q][i + 1].op
                /\ prog[readlog[q][i].op].kind = "trunc"
                /\ Len(readlog[q][i].rec) = 2
                /\ Len(readlog[q][i + 1].rec) = 1
          /\ \E i \in 1..rd[q] : prog[readlog[q][i].op].kind \in {"round", "random"}

\* C11: a small-gap truncation by m of a sharing of x, x a k-bit signed
\* value, opens to floor(x / 2^m) or floor(x / 2^m) + 1, for every mask and
\* all generator outputs.
C11_AsStated ==
    [][OnlineStep("trunc") =>
        LET info == prog[pc + 1].tuples[1]
            x == Open(info.src)
            res == OpenOf(proto, onS', info.dst)
        IN (SmallGap(info) /\ x \in SignedRange(info.k)) =>
              res \in {SignedShr(x, info.m), Add(SignedShr(x, info.m), 1)}]_vars

----------------------------------------------------------------------------
(* Rounds with faults: short records, short messages, unequal batches *)

\* the online parties take a step that runs a round of multiplications
RoundStep ==
    /\ pc' = pc + 1
    /\ prog[pc + 1].kind = "round"
\* the batch of online party q in the round about to run
BatchOf(q) == RoundCount(prog[pc + 1].on[q])

TapeErrors == {"insufficient preprocessing", "not enough preprocessing"}
WireErrors == {"insufficient data in Astra", "insufficient data in Trio"}

\* C12 as stated: an online party whose record holds fewer limbs than the
\* round consumes, a gamma limb and a lambda limb per product, stops with
\* the fatal tape error, sends nothing and gets no result. (The error text
\* of either protocol is accepted.)
C12_AsStated ==
    [][RoundStep =>
        \A q \in OnlineParties :
            Len(NextRecord(q)) < 2 * BatchOf(q) =>
                /\ err'[q] \in TapeErrors
                /\ wire'[q] = <<>>
                /\ onS'[q] = onS[q]]_vars

\* C13: an online party that has sent its message and receives one with
\* fewer elements than its batch stops with a fatal "insufficient data"
\* error and stores no result of the round.
C13_ShortWireFatal ==
    [][RoundStep =>
        \A q \in OnlineParties :
            (/\ wire'[q] # <<>>
             /\ wire'[3 - q] # <<>>
             /\ Len(wire'[3 - q]) < BatchOf(q)) =>
                /\ err'[q] \in WireErrors
                /\ onS'[q] = onS[q]]_vars

\* a round has run in which party 2 sent fewer elements than party 1 needed
C13_Witness ==
    /\ pc = 2
    /\ prog[2].kind = "round"
    /\ wire[1] # <<>>
    /\ wire[2] # <<>>
    /\ Len(wire[2]) < RoundCount(prog[2].on[1])
    /\ err[1] \in WireErrors
    /\ err[2] = ""

\* C14 as stated: when the batch of a round differs between two of its
\* participants, some online party stops with a fatal error and no online
\* party stores results of the round. (Any fatal error is accepted.)
C14_AsStated ==
    [][RoundStep =>
        ((\E q \in OnlineParties : BatchOf(q) # RoundCount(prog[pc + 1])
          \/ BatchOf(1) # BatchOf(2)) =>
            /\ \E q \in OnlineParties : err'[q] # ""
            /\ onS' = onS)]_vars

\* C16 as stated: an online party that completes a round of n products
\* has read a record of n limbs.
C16_AsStated ==
    [][RoundStep =>
        \A q \in OnlineParties :
            (/\ err'[q] = ""
             /\ wire'[3 - q] # <<>>
             /\ BatchOf(q) = RoundCount(prog[pc + 1])) =>
                Len(NextRecord(q)) = BatchOf(q)]_vars

\* C16, amended: an online party that completes a round of n products, from
\* a record written for n products or under Astra from any record, has read
\* a record of 2 * n limbs: gamma and the new -lambda of each product.
C16_TapeConsumption ==
    [][RoundStep =>
        \A q \in OnlineParties :
            (/\ err'[q] = ""
             /\ wire'[3 - q] # <<>>
             /\ (BatchOf(q) = RoundCount(prog[pc + 1]) \/ proto = "astra")) =>
                /\ Len(NextRecord(q)) = 2 * BatchOf(q)
                /\ Len(readlog'[q]) = Len(readlog[q]) + 1]_vars

\* both parties have completed a round of two products, each from a record
\* of four limbs
C16_Witness ==
    /\ pc = 2
    /\ prog[2].kind = "round"
    /\ err = NoError
    /\ \A q \in OnlineParties :
          /\ RoundCount(prog[2].on[q]) = 2
          /\ Len(readlog[q][Len(readlog[q])].rec) = 4
          /\ readlog[q][Len(readlog[q])].op = 2
          /\ onS[q][1] # <<0, 0>>

----------------------------------------------------------------------------
(* Message rounds of the online phase *)

\* the online parties run an operation of one of these kinds to its end
BatchStep(kinds) ==
    /\ pc' = pc + 1
    /\ prog[pc + 1].kind \in kinds
    /\ err' = NoError
OneRound == sent' = [q \in OnlineParties |-> sent[q] + 1]
HasSmallGap(op) == \E i \in 1..Len(op.tuples) : SmallGap(op.tuples[i])

\* C15 as stated: every batch of multiplications, every truncation batch
\* and every unsplit batch, of one or of two registers, has each online
\* party send exactly one message.
C15_AsStated ==
    [][BatchStep({"round", "trunc", "unsplit1", "unsplit"}) => OneRound]_vars

\* C15, amended: each online party sends exactly one message in a batch of
\* multiplications, in a truncation batch with a small-gap tuple and in a
\* one-register unsplit batch, and none in a truncation batch of big-gap
\* tuples only, in a two-register unsplit batch and in get_random and
\* randoms, which only read the tape.
C15_RoundCount ==
    [][/\ BatchStep({"round", "unsplit1"}) => OneRound
       /\ BatchStep({"trunc"}) =>
             IF HasSmallGap(prog[pc + 1]) THEN OneRound ELSE sent' = sent
       /\ BatchStep({"unsplit", "random", "randoms"}) =>
             (sent' = sent /\ \A q \in OnlineParties : rd'[q] > rd[q])]_vars

\* a program with a round of multiplications, a small-gap truncation batch
\* and a big-gap truncation batch has run to its end, and each party has
\* sent one message in each but the last of them, and one in the input round
C15_Witness ==
    /\ pc = Len(prog)
    /\ err = NoError
    /\ \E i, j, k \in 1..pc :
          /\ prog[i].kind = "round"
          /\ prog[j].kind = "trunc" /\ HasSmallGap(prog[j])
          /\ prog[k].kind = "trunc" /\ ~HasSmallGap(prog[k])
    /\ \A q \in OnlineParties : sent[q] = pc - 1

----------------------------------------------------------------------------
(* What the preprocessing of a round of multiplications leaves behind *)

\* C17: in an Astra preprocessing round of n products party 0 sends party 2
\* one limb per product, its local product minus gamma; party 1 appends one
\* record with, per product and in the order of the batch, the gamma party 0
\* used and the first limb of the new mask; party 2 appends one record with,
\* per product and in order, the limb received and the second limb of the
\* new mask.
C17_AstraPrepOutput ==
    [][(/\ ppc' = ppc + 1
        /\ prog[ppc + 1].kind = "round"
        /\ proto = "astra") =>
        LET op == prog[ppc + 1]
            n == RoundCount(op)
            in0 == PrepDotInputs(0, op) \o PrepPairInputs(0, op)
            rec(q) == tape'[q][Len(tape'[q])]
            res(p, k) == prepS'[p][op.dst + k - 1]
        IN /\ Len(pwire') = 1
           /\ pwire'[1].to = 2
           /\ Len(pwire'[1].data) = n
           /\ \A q \in OnlineParties :
                 /\ Len(tape'[q]) = Len(tape[q]) + 1
                 /\ Len(rec(q)) = 2 * n
           /\ \A k \in 1..n :
                 /\ pwire'[1].data[k] = Sub(in0[k], rec(1)[2 * k - 1])
                 /\ rec(2)[2 * k - 1] = pwire'[1].data[k]
                 /\ rec(1)[2 * k] = res(1, k)[2]
                 /\ rec(1)[2 * k] = res(0, k)[1]
                 /\ rec(2)[2 * k] = res(2, k)[2]
                 /\ rec(2)[2 * k] = res(0, k)[2]]_vars

\* the Astra preprocessing parties have run a round of two products, of
\* which party 1 has recorded two different gammas
C17_Witness ==
    /\ proto = "astra"
    /\ ppc = 2
    /\ prog[2].kind = "round"
    /\ RoundCount(prog[2]) = 2
    /\ Len(pwire) = 1 /\ Len(pwire[1].data) = 2
    /\ Len(tape[1]) = 2 /\ Len(tape[1][2]) = 4
    /\ tape[1][2][1] # tape[1][2][3]
    /\ tape[2][2][1] = pwire[1].data[1]

----------------------------------------------------------------------------
(* The two paths of a truncation batch *)

\* the number of registers of a truncation batch with k <= K - TruncError,
\* and the number of the others
NumBig(op) ==
    op.size * Cardinality({i \in 1..Len(op.tuples) : op.tuples[i].k <= K - TruncError})
NumSmall(op) ==
    op.size * Cardinality({i \in 1..Len(op.tuples) : op.tuples[i].k > K - TruncError})
\* the lengths of the records of such a batch: one limb per register of the
\* big-gap path in one record; two limbs and then one limb per register of
\* the small-gap path in two records
TruncRecordLengths(op) ==
    (IF NumBig(op) > 0 THEN <<NumBig(op)>> ELSE <<>>)
    \o (IF NumSmall(op) > 0 THEN <<2 * NumSmall(op), NumSmall(op)>> ELSE <<>>)
Lengths(recs) == [i \in 1..Len(recs) |-> Len(recs[i])]

\* C18: a tuple of a truncation batch takes the big-gap path exactly when
\* k <= K - TruncError and the small-gap path otherwise. The preprocessing
\* parties write for each online party what the registers of each path
\* need, every register counted once, and both online parties read exactly
\* these records and reach the end of the batch without error.
C18_GapPartition ==
    [][/\ (ppc' = ppc + 1 /\ prog[ppc + 1].kind = "trunc") =>
             \A q \in OnlineParties :
                Lengths(SubSeq(tape'[q], Len(tape[q]) + 1, Len(tape'[q])))
                   = TruncRecordLengths(prog[ppc + 1])
       /\ (pc' = pc + 1 /\ prog[pc + 1].kind = "trunc") =>
             /\ err' = NoError
             /\ \A q \in OnlineParties :
                   /\ rd'[q] = rd[q] + Len(TruncRecordLengths(prog[pc + 1]))
                   /\ Lengths([i \in 1..(rd'[q] - rd[q]) |-> tape[q][rd[q] + i]])
                         = TruncRecordLengths(prog[pc + 1])
                   /\ sent'[q] = sent[q] + (IF NumSmall(prog[pc + 1]) > 0 THEN 1 ELSE 0)]_vars

\* the online parties have run a batch of one big-gap and one small-gap
\* tuple from three records each
C18_Witness ==
    /\ pc = 2
    /\ prog[2].kind = "trunc"
    /\ NumBig(prog[2]) = 1
    /\ NumSmall(prog[2]) = 1
    /\ err = NoError
    /\ \A q \in OnlineParties :
          /\ rd[q] = 4
          /\ Lengths(SubSeq(tape[q], 2, 4)) = <<1, 2, 1>>

----------------------------------------------------------------------------
(* What party 0 gets to see *)

\* the program run on clear values, xs[q] the private inputs of online
\* party q: the registers, the inputs used, the values last opened and the
\* vectors synced after i operations
RECURSIVE ClearRun(_, _)
ClearRun(xs, i) ==
    IF i = 0
    THEN [regs |-> [r \in Regs |-> 0], used |-> <<0, 0>>, last |-> <<>>, synced |-> <<>>]
    ELSE LET st == ClearRun(xs, i - 1)
             op == prog[i]
         IN CASE op.kind = "input" ->
                   [st EXCEPT
                      !.regs = Put(st.regs, op.dst,
                          SubSeq(xs[1], st.used[1] + 1, st.used[1] + op.n[1])
                          \o SubSeq(xs[2], st.used[2] + 1, st.used[2] + op.n[2])),
                      !.used = <<st.used[1] + op.n[1], st.used[2] + op.n[2]>>]
              [] op.kind = "round" ->
                   [st EXCEPT
                      !.regs = Put(st.regs, op.dst,
                          [k \in 1..Len(op.pairs) |->
                              Mul(st.regs[op.pairs[k][1]], st.regs[op.pairs[k][2]])])]
              [] op.kind = "open" ->
                   [st EXCEPT !.last = [k \in 1..Len(op.regs) |-> st.regs[op.regs[k]]]]
              [] op.kind = "sync" ->
                   [st EXCEPT !.synced = Append(st.synced, st.last)]
              [] OTHER -> st
\* the private inputs a run of the program can be given
InputChoices ==
    LET count(q) == Len(inputs[q])
    IN [1..count(1) -> InputVals] \X [1..count(2) -> InputVals]
BothDone ==
    /\ pc = Len(prog)
    /\ ppc = Len(prog)
    /\ err = NoError

----------------------------------------------------------------------------
(* The tapes as a function of the program and the generator streams *)

\* the n-th value party p gets from shared_prngs[j] of set g after pos draws
NxtAt(pos, p, g, j, n) == rnd[prngSeed[p][g][j + 1]][pos[p][g][j + 1] + n]
Advance(pos, cnt) ==
    [p \in PrepParties |-> [g \in Gens |->
        <<pos[p][g][1] + cnt[p][g][1], pos[p][g][2] + cnt[p][g][2]>>]]
Appended(tp, rec1, rec2) ==
    [q \in OnlineParties |-> Append(tp[q], IF q = 1 THEN rec1 ELSE rec2)]

\* an input round, from the registers S, the draw counts pos and the tapes tp
TapeAfterInput(st, op) ==
    LET n1 == op.n[1]
        n2 == op.n[2]
        res0 == [j \in 1..n1 |-> <<NxtAt(st.pos, 0, 0, 0, j), 0>>]
                \o [j \in 1..n2 |-> <<0, NxtAt(st.pos, 0, 0, 1, j)>>]
        gamma1 == [j \in 1..n1 |-> NxtAt(st.pos, 1, 0, 1, j)]
        gamma2 == [j \in 1..n2 |-> NxtAt(st.pos, 2, 0, 0, j)]
        res1 == [j \in 1..n1 |-> <<0, gamma1[j]>>] \o [j \in 1..n2 |-> Zero]
        res2 == [j \in 1..n1 |-> Zero] \o [j \in 1..n2 |-> <<0, gamma2[j]>>]
    IN [S |-> [p \in PrepParties |->
                  Put(st.S[p], op.dst, IF p = 0 THEN res0 ELSE IF p = 1 THEN res1 ELSE res2)],
        pos |-> Advance(st.pos, DrawsOf(0, <<n1, n2>>, <<0, n1>>, <<n2, 0>>)),
        tp |-> Appended(st.tp, gamma1, gamma2)]

\* a round of dot products and products
TapeAfterRound(st, op) ==
    LET n == RoundCount(op)
        prod(ab) == PrepLocalMul(proto, 0, st.S[0][ab[1]], st.S[0][ab[2]])
        in0 == [d \in 1..Len(op.dots) |->
                   SumSeq([k \in 1..Len(op.dots[d]) |-> prod(op.dots[d][k])])]
               \o [k \in 1..Len(op.pairs) |-> prod(op.pairs[k])]
        at(p, j, i) == NxtAt(st.pos, p, 0, j, i)
        astra == proto = "astra"
        os == [k \in 1..n |->
                  IF astra THEN Sub(in0[k], at(0, 0, 2 * k)) ELSE Add(in0[k], at(0, 0, 2 * k - 1))]
        res0 == [k \in 1..n |->
                  <<IF astra THEN at(0, 0, 2 * k - 1) ELSE at(0, 0, 2 * k), at(0, 1, k)>>]
        first1 == [k \in 1..n |-> IF astra THEN at(1, 1, 2 * k) ELSE at(1, 1, 2 * k - 1)]
        mask1 == [k \in 1..n |-> IF astra THEN at(1, 1, 2 * k - 1) ELSE at(1, 1, 2 * k)]
        mask2 == [k \in 1..n |-> at(2, 0, k)]
        res(p) == IF p = 0 THEN res0
                  ELSE [k \in 1..n |-> <<0, IF p = 1 THEN mask1[k] ELSE mask2[k]>>]
    IN [S |-> [p \in PrepParties |-> Put(st.S[p], op.dst, res(p))],
        pos |-> Advance(st.pos, DrawsOf(0, <<2 * n, n>>, <<0, 2 * n>>, <<n, 0>>)),
        tp |-> Appended(st.tp,
                   Flatten([k \in 1..n |-> <<first1[k], mask1[k]>>]),
                   Flatten([k \in 1..n |-> <<os[k], mask2[k]>>]))]

\* a truncation batch of big-gap tuples
TapeAfterBigGap(st, op) ==
    LET big == TruncElems(op.tuples, op.size)
        nb == Len(big)
        gen == TruncGenLoop(st.S[0], <<>>, big, [j \in 1..nb |-> NxtAt(st.pos, 0, 0, 1, j)])
        own == [j \in 1..nb |-> NxtAt(st.pos, 2, 0, 0, j)]
    IN [S |-> [p \in PrepParties |->
                  IF p = 0 THEN gen.S
                  ELSE TruncMaskLoop(st.S[p], big, IF p = 1 THEN gen.cs ELSE own)],
        pos |-> Advance(st.pos, TruncDraws(nb, 0)),
        tp |-> Appended(st.tp, gen.cs, own)]

\* the preprocessing of the first i operations of the program
RECURSIVE TapeFrom(_)
TapeFrom(i) ==
    IF i = 0
    THEN [S |-> [p \in PrepParties |-> [r \in Regs |-> Zero]],
          pos |-> NoDraws,
          tp |-> [q \in OnlineParties |-> <<>>]]
    ELSE LET st == TapeFrom(i - 1)
             op == prog[i]
         IN CASE op.kind = "input" -> TapeAfterInput(st, op)
              [] op.kind = "round" -> TapeAfterRound(st, op)
              [] op.kind = "trunc" -> TapeAfterBigGap(st, op)
              [] OTHER -> st

----------------------------------------------------------------------------
(* Operations without communication *)

\* the online parties run an operation of this kind on their own shares
LocalStep(kind) ==
    /\ pc' = pc + 1
    /\ prog[pc + 1].kind = kind
\* nothing is read from a tape, written to one or sent in this step
NoTraffic ==
    /\ rd' = rd
    /\ readlog' = readlog
    /\ tape' = tape
    /\ sent' = sent
    /\ wire' = wire

\* C22: the limb-wise sum of two sharings opens to the sum of what they
\* open to, and the limb-wise product of a sharing with a clear value c to
\* c times what it opens to, mod 2^K; each party computes them from its own
\* shares, reads no tape record and sends no message; for Astra and for
\* Trio shares (a Trio sharing under both ways of opening it).
C22_Linearity ==
    [][/\ LocalStep("add") =>
             LET op == prog[pc + 1] IN
             /\ OpenOf(proto, onS', op.dst) = Add(Open(op.a), Open(op.b))
             /\ proto = "trio" =>
                    TrioOpen2Of(onS', op.dst) = Add(Open(op.a), Open(op.b))
             /\ NoTraffic
       /\ LocalStep("scale") =>
             LET op == prog[pc + 1] IN
             /\ OpenOf(proto, onS', op.dst) = Mul(Open(op.a), op.c)
             /\ proto = "trio" =>
                    TrioOpen2Of(onS', op.dst) = Mul(Open(op.a), op.c)
             /\ NoTraffic
       /\ (ppc' = ppc + 1 /\ prog[ppc + 1].kind \in {"add", "scale"}) =>
             (tape' = tape /\ rnd' = rnd /\ pwire' = <<>>)]_vars

\* a product with both masks non-zero has been multiplied by a clear value
\* other than 0 and 1 in place, and the result is not zero
C22_Witness ==
    /\ pc = 3
    /\ prog[3].kind = "scale"
    /\ prog[3].c = 3
    /\ prog[3].a = 3
    /\ Open(3) # 0
    /\ onS[1][3][2] # 0 /\ onS[2][3][2] # 0
    /\ sent = [q \in OnlineParties |-> 2]

\* C23: the sharing constant(c) that each party builds on its own opens to
\* c, for every clear c, and the sum of constant(c) and a sharing of x opens
\* to x + c.
C23_ConstantInvariance ==
    [][/\ LocalStep("const") =>
             /\ OpenOf(proto, onS', prog[pc + 1].dst) = prog[pc + 1].c
             /\ NoTraffic
       /\ (LocalStep("add") /\ pc > 0 /\ prog[pc].kind = "const") =>
             LET op == prog[pc + 1] IN
             /\ op.b = prog[pc].dst
             /\ OpenOf(proto, onS', op.dst) = Add(Open(op.a), prog[pc].c)
       /\ (LocalStep("open") /\ pc > 1 /\ prog[pc - 1].kind = "const") =>
             opened'[1] = <<prog[pc - 1].c, Add(Open(1), prog[pc - 1].c)>>]_vars

\* a constant other than 0 and the sum of it and a masked input have been
\* opened
C23_Witness ==
    /\ pc = 4
    /\ prog[2].kind = "const"
    /\ prog[2].c = Mod - 1
    /\ Len(inputs[1]) = 1
    /\ opened[1] = <<Mod - 1, Add(inputs[1][1], Mod - 1)>>
    /\ opened[2] = opened[1]
    /\ onS[1][1][2] # 0

\* the online parties have built the constant of the operation just run
ConstBuilt == pc > 0 /\ prog[pc].kind = "const"
\* the preprocessing parties have
PrepConstBuilt == ppc > 0 /\ prog[ppc].kind = "const"

\* C24 as stated: constant(c) has m = c and lambda = 0, and only online
\* party 1 holds a limb other than zero: online party 2 and party 0 hold
\* all-zero limbs.
C24_AsStated ==
    /\ ConstBuilt =>
          /\ onS[1][prog[pc].dst] = <<prog[pc].c, 0>>
          /\ onS[2][prog[pc].dst] = Zero
    /\ PrepConstBuilt => prepS[0][prog[ppc].dst] = Zero

\* C24, amended: constant(c) has m = c and lambda = 0: both online parties
\* hold limb 0 = c and limb 1 = 0, so that the masked value is common to
\* them as for every sharing, and the preprocessing parties hold all-zero
\* limbs.
C24_ConstantEmbedding ==
    /\ ConstBuilt =>
          \A q \in OnlineParties :
             /\ onS[q][prog[pc].dst] = <<prog[pc].c, 0>>
             /\ CommonM(proto, onS[q][prog[pc].dst]) = prog[pc].c
             /\ Lambda(onS[q][prog[pc].dst]) = 0
    /\ PrepConstBuilt =>
          \A p \in PrepParties : prepS[p][prog[ppc].dst] = Zero

\* both online parties hold a constant other than zero
C24_Witness ==
    /\ ConstBuilt
    /\ prog[pc].c = Mod - 1
    /\ onS[1][2] = <<Mod - 1, 0>>
    /\ onS[2][2] = <<Mod - 1, 0>>
    /\ prepS[0][2] = Zero

----------------------------------------------------------------------------
(* Files *)

\* the handles on tape files
TapeHandles == {h \in files : h.file[2] = "Protocol"}

\* C25: the tape file that preprocessing party p in {1, 2} writes in thread t
\* is the file that online party p - 1 reads in thread t; no handle of another
\* thread or another party is on the same file, no party reads a tape file in
\* the preprocessing or writes one online, and preprocessing party 0 has no
\* tape file.
C25_TapeOwnership ==
    /\ \A h \in TapeHandles :
           /\ h.role = "prep" => h.my_num \in 1..2 /\ h.mode = "write"
           /\ h.role = "online" => h.mode = "read"
    /\ \A g, h \in TapeHandles :
           g.file = h.file =>
               /\ g.thread = h.thread
               /\ g.role = h.role => g.my_num = h.my_num
               /\ g.role = "prep" /\ h.role = "online" => h.my_num = g.my_num - 1
    /\ \A g \in TapeHandles, h \in files \ TapeHandles : g.file # h.file
    /\ \A g, h \in TapeHandles :
           /\ g.role = "prep" /\ h.role = "online"
           /\ h.my_num = g.my_num - 1 /\ g.thread = h.thread /\ g.file[3] = h.file[3]
           => g.file = h.file

\* both threads of both phases have their tape files open, and party 0 has
\* run init_prep, with the output files open too
C25_Witness ==
    /\ \A p \in 1..2, t \in Threads :
           /\ \E h \in TapeHandles : h.role = "prep" /\ h.my_num = p /\ h.thread = t
           /\ \E h \in TapeHandles : h.role = "online" /\ h.my_num = p - 1 /\ h.thread = t
    /\ \E h \in files : h.file[2] = "Outputs" /\ h.mode = "write"
    /\ \E h \in files : h.file[2] = "Outputs" /\ h.mode = "read"

----------------------------------------------------------------------------
(* Framing *)

\* a length below 2^24 in n_bytes bytes, the least significant first
LengthField(len, n_bytes) ==
    [i \in 1..n_bytes |->
        CASE i = 1 -> len % 256
          [] i = 2 -> (len \div 256) % 256
          [] i = 3 -> (len \div (256 * 256)) % 256
          [] OTHER -> 0]

\* the bytes of the buffers bufs[from..], each after its length field
RECURSIVE FramesFrom(_, _, _)
FramesFrom(bufs, from, n_bytes) ==
    IF from > Len(bufs) THEN <<>>
    ELSE LengthField(Len(bufs[from]), n_bytes)
             \o bufs[from] \o FramesFrom(bufs, from + 1, n_bytes)

\* what has been taken from a medium is what was first put on it
ReadBack(medium) ==
    /\ Len(unframed[medium]) <= Len(framed[medium])
    /\ unframed[medium] = SubSeq(framed[medium], 1, Len(unframed[medium]))

----------------------------------------------------------------------------
(* Empty batches *)

\* the preprocessing parties run a round without products in this step
PrepEmptyStep ==
    /\ ppc' = ppc + 1
    /\ prog[ppc + 1].kind = "round"
    /\ RoundCount(prog[ppc + 1]) = 0
\* the online parties run a round without products in this step
OnlineEmptyStep ==
    /\ pc' = pc + 1
    /\ prog[pc + 1].kind = "round"
    /\ \A q \in OnlineParties : RoundCount(prog[pc + 1].on[q]) = 0

\* no share, register or generator changes in a preprocessing step
PrepSharesKept == prepS' = prepS /\ prepB' = prepB /\ prngPos' = prngPos /\ rnd' = rnd
\* no share or register changes and no error is raised in an online step
OnlineSharesKept == onS' = onS /\ onB' = onB /\ err' = err /\ opened' = opened

\* C27 as stated: a round without products reads no tape record, writes
\* none, sends no message and changes no share or register, on every party.
C27_AsStated ==
    [][/\ PrepEmptyStep => PrepSharesKept /\ tape' = tape /\ pwire' = <<>>
       /\ OnlineEmptyStep => OnlineSharesKept /\ rd' = rd /\ sent' = sent]_vars

\* C27, amended: a round without products changes no share, register or
\* generator position; preprocessing parties 1 and 2 each append one empty
\* record to their tape and party 0 sends one empty message to party 2; each
\* online party reads one empty record and sends one empty message.
C27_EmptyBatch ==
    [][/\ PrepEmptyStep =>
              /\ PrepSharesKept
              /\ \A q \in OnlineParties : tape'[q] = Append(tape[q], <<>>)
              /\ pwire' = <<[to |-> 2, data |-> <<>>]>>
       /\ OnlineEmptyStep =>
              /\ OnlineSharesKept
              /\ \A q \in OnlineParties :
                     /\ rd'[q] = rd[q] + 1
                     /\ tape[q][rd'[q]] = <<>>
                     /\ sent'[q] = sent[q] + 1
                     /\ wire'[q] = <<>>]_vars

\* both phases have run an empty round after a product and the result of the
\* product has been opened
C27_Witness ==
    /\ BothDone
    /\ Len(prog) = 4
    /\ err = NoError
    /\ \A q \in OnlineParties : Len(tape[q]) = 3 /\ tape[q][3] = <<>> /\ rd[q] = 3

----------------------------------------------------------------------------
(* Truncation by zero *)

\* C28: a truncation with shift amount 0 of a sharing of x leaves a sharing
\* that opens to x, on the big-gap and on the small-gap path, for every mask
\* and all generator outputs.
C28_TruncZeroIdentity ==
    [][OnlineStep("trunc") =>
        LET info == prog[pc + 1].tuples[1]
        IN info.m = 0 => OpenOf(proto, onS', info.dst) = Open(info.src)]_vars

\* the same for every truncation but the big-gap one of a Trio sharing onto
\* its own register
C28_ExceptTrioInPlace ==
    [][OnlineStep("trunc") =>
        LET info == prog[pc + 1].tuples[1]
        IN (info.m = 0 /\ (SmallGap(info) \/ TruncSeparate(info))) =>
               OpenOf(proto, onS', info.dst) = Open(info.src)]_vars

----------------------------------------------------------------------------
(* The final adjustment of small-gap truncation *)

\* what party 0 masks the source with: r = y.sum() + add_before - 1, y.sum()
\* being the sum of the mask limbs the online parties hold
SmallGapR(info) ==
    Sub(Add(Add(onS[1][info.src][2], onS[2][info.src][2]), Shl(1, info.k - 1)), 1)
\* the masked value of the source
SmallGapC(info) == CommonM(proto, onS[1][info.src])

\* C29 as stated: the destination of a small-gap truncation opens to
\* c_prime + correction_shift(r_prime - r_msb - c_msb + 2 * (r_msb * c_msb)),
\* c_prime = c >> m, r_prime = r >> m, correction_shift a left shift by the
\* bit width less m.
C29_AsStated ==
    [][OnlineStep("trunc") =>
        LET info == prog[pc + 1].tuples[1]
            r == SmallGapR(info)
            c == SmallGapC(info)
            bits == Add(Sub(Sub(RightShift(r, info.m), Msb(r)), Msb(c)),
                        Mul(2, Mul(Msb(r), Msb(c))))
        IN SmallGap(info) =>
               OpenOf(proto, onS', info.dst)
                   = Add(RightShift(c, info.m), Shl(bits, K - info.m))]_vars

\* C29, amended: the destination of a small-gap truncation opens to
\* c_prime + r_prime - (subtract_after - 1)
\*     + correction_shift(r_msb * c_msb - r_msb - c_msb),
\* subtract_after = 2^(k - m - 1).
C29_FinalAdjustment ==
    [][OnlineStep("trunc") =>
        LET info == prog[pc + 1].tuples[1]
            r == SmallGapR(info)
            c == SmallGapC(info)
            bits == Sub(Sub(Mul(Msb(r), Msb(c)), Msb(r)), Msb(c))
        IN SmallGap(info) =>
               OpenOf(proto, onS', info.dst)
                   = Add(Sub(Add(RightShift(c, info.m), RightShift(r, info.m)),
                             Sub(Shl(1, info.k - info.m - 1), 1)),
                         Shl(bits, K - info.m))]_vars

\* a small-gap truncation has run where the top bits of r and of the masked
\* value are both set
C29_Witness ==
    /\ pc = 2
    /\ err = NoError
    /\ prog[2].kind = "trunc"
    /\ SmallGap(prog[2].tuples[1])
    /\ prog[2].tuples[1].dst # prog[2].tuples[1].src
    /\ Msb(SmallGapR(prog[2].tuples[1])) = 1
    /\ Msb(SmallGapC(prog[2].tuples[1])) = 1

----------------------------------------------------------------------------
(* The helper's masks *)

\* party 0 holds in register r the mask limbs of the two online parties
HelperHoldsMasks(r) ==
    /\ prepS[0][r][1] = onS[1][r][2]
    /\ prepS[0][r][2] = onS[2][r][2]

\* C30: once the online parties have run the operations the preprocessing
\* has run, for every register the helper's limb[0] is the mask limb of
\* online party 1 and its limb[1] the mask limb of online party 2.
C30_HelperMasks ==
    (pc = ppc /\ err = NoError) => \A r \in 1..NReg : HelperHoldsMasks(r)

\* the same while no two-register unsplit has written a second register
\* that held a sharing
C30_ExceptStaleUnsplit ==
    (pc = ppc /\ err = NoError /\ ~(prog[1].kind = "random" /\ pc = 3)) =>
        \A r \in 1..NReg : HelperHoldsMasks(r)

----------------------------------------------------------------------------
(* What an online party's view determines *)

\* A world of a run of MaskPrograms: the input v[q] of each online party and
\* the mask g[q] that the preprocessing put on its tape for it.  The run is
\* a function of the world: after stage 1 register q holds the input of
\* party q, after stage 2 register 3 their sum, and stage 3 opens it.

\* the world of the current state, once the inputs have been shared
ThisWorld ==
    [v |-> [q \in OnlineParties |-> inputs[q][1]],
     g |-> [q \in OnlineParties |-> tape[q][1][1]]]

\* what the owner of an input sends
InputSent(w, owner) == TSub(FALSE, w.v[owner], w.g[owner])
\* the share party q holds of the input of owner
InputShare(pr, w, q, owner) ==
    Input_finalize_offset(pr, FALSE, owner - q,
        IF owner = q THEN <<0, w.g[owner]>> ELSE Zero, InputSent(w, owner))
\* the registers of party q after stage st
RegsIn(pr, w, q, st) ==
    [r \in Regs |->
        IF r < 3 THEN InputShare(pr, w, q, r)
        ELSE IF r = 3 /\ st >= 2
             THEN ShareAdd(InputShare(pr, w, q, 1), InputShare(pr, w, q, 2))
             ELSE Zero]
\* what party q sends in the opening
OpenSent(pr, w, q) == PrepareSummand(pr, q, RegsIn(pr, w, q, 2)[3])

\* the view of party q after stage st: its input, the record it read from
\* its tape, its registers, and what it received in the input round and in
\* the opening
ViewIn(pr, w, q, st) ==
    [input |-> w.v[q],
     record |-> <<w.g[q]>>,
     regs |-> RegsIn(pr, w, q, st),
     received |-> <<InputSent(w, 3 - q)>>
                  \o (IF st >= 3 THEN <<OpenSent(pr, w, 3 - q)>> ELSE <<>>)]

\* the mask limb the other online party holds of register r
OtherMask(pr, w, q, r, st) == RegsIn(pr, w, 3 - q, st)[r][2]

\* the worlds with the input and the tape of party q as in w: the view of
\* party q holds both, so no other world has the view of w
OwnFixed(w, q) ==
    {[v |-> [w.v EXCEPT ![3 - q] = x], g |-> [w.g EXCEPT ![3 - q] = y]] :
        x \in Ring, y \in RandVals}

\* the worlds that party q cannot tell from w after stage st
SameView(pr, w, q, st) ==
    LET mine == ViewIn(pr, w, q, st)
    IN  {a \in OwnFixed(w, q) : ViewIn(pr, a, q, st) = mine}

\* the view of party q determines the other party's mask limb of register r:
\* it is the same in every world of same, the worlds with that view
Determined(same, pr, w, q, r, st) ==
    \A a \in same : OtherMask(pr, a, q, r, st) = OtherMask(pr, w, q, r, st)

\* the run of the state is the run of its world
RunIsOfWorld ==
    /\ \A q \in OnlineParties : onS[q] = RegsIn(proto, ThisWorld, q, pc)
    /\ \A q \in OnlineParties : readlog[q][1].rec = <<ThisWorld.g[q]>>
    /\ pc = 1 => \A q \in OnlineParties : wire[q] = <<InputSent(ThisWorld, q)>>
    /\ pc = 3 => \A q \in OnlineParties : wire[q] = <<OpenSent(proto, ThisWorld, q)>>

\* the registers that hold a sharing after stage st
Shared(st) == IF st >= 2 THEN 1..3 ELSE 1..2

\* C21 as stated: for every sharing that exists, the view of neither online
\* party determines the mask share of the other party (its own it holds), so
\* neither party's view determines both mask shares.
C21_AsStated ==
    pc >= 1 =>
        \A q \in OnlineParties :
            \E same \in {SameView(proto, ThisWorld, q, pc)} :
                \A r \in Shared(pc) : ~Determined(same, proto, ThisWorld, q, r, pc)

\* C21, amended: before anything is opened, the view of an online party does
\* not determine the other party's mask share of the other party's input nor
\* of a sum with it; it does determine both mask shares of its own input,
\* and of every sharing once the sum has been opened.
C21_MaskPrivacy ==
    pc >= 1 =>
        /\ RunIsOfWorld
        /\ \A q \in OnlineParties :
               \E same \in {SameView(proto, ThisWorld, q, pc)} :
                   /\ Determined(same, proto, ThisWorld, q, q, pc)
                   /\ pc < 3 => \A r \in Shared(pc) \ {q} :
                                    ~Determined(same, proto, ThisWorld, q, r, pc)
                   /\ pc = 3 => \A r \in Shared(pc) :
                                    Determined(same, proto, ThisWorld, q, r, pc)

\* the sum of two different inputs has been formed and not opened, and has
\* then been opened
C21_Witness ==
    /\ pc = 3
    /\ err = NoError
    /\ inputs[1] # inputs[2]
    /\ opened[1] = <<Add(inputs[1][1], inputs[2][1])>>
    /\ onS[1][3][2] # onS[2][3][2]

----------------------------------------------------------------------------
(* Mixed rounds *)

\* the j-th result of a round opens to the j-th prepared operation: the dot
\* products in the order of their next_dotprod, then the plain products
MixedResultsCorrect(op, S) ==
    /\ \A d \in 1..Len(op.dots) :
           OpenOf(proto, S, op.dst + d - 1) = DotValue(op.dots[d])
    /\ \A k \in 1..Len(op.pairs) :
           OpenOf(proto, S, op.dst + Len(op.dots) + k - 1) =
               Mul(Open(op.pairs[k][1]), Open(op.pairs[k][2]))

\* a round with at least one dot product and at least one plain product
IsMixed(op) == Len(op.dots) > 0 /\ Len(op.pairs) > 0

\* C31: in a round that holds both dot products and plain products the
\* preprocessing and the online parties use the same tape entry and the same
\* result position for every operation, so that every finalized result opens
\* to its product or dot product, for Astra and for Trio.
C31_MixedRounds ==
    [][(OnlineStep("round") /\ IsMixed(prog[pc + 1])) =>
        MixedResultsCorrect(prog[pc + 1], onS')]_vars

\* the same for Astra alone, where both phases take the dot products first
C31_AstraMixedRounds ==
    [][(OnlineStep("round") /\ IsMixed(prog[pc + 1]) /\ proto = "astra") =>
        MixedResultsCorrect(prog[pc + 1], onS')]_vars

----------------------------------------------------------------------------
(* Truncation onto the source registers *)

\* the registers of the online parties after the big-gap loop has run over
\* the same tape records with the destination moved to register dst
TruncApart(info, dst) ==
    [q \in OnlineParties |->
        TruncOnlineLoop(proto, onS[q],
            TruncElems(<<TruncTuple(dst, info.src, info.k, info.m)>>, 1),
            Record(q, 1))]

\* the big-gap truncation of the step is in place and opens to what the
\* same truncation opens to in a register other than the source
SameAsApart(info) ==
    \A dst \in Regs \ {info.src} :
        OpenOf(proto, onS', info.dst) = OpenOf(proto, TruncApart(info, dst), dst)

\* C32: a big-gap truncation whose destination register is its source
\* register opens to the same value as the truncation of the same sharing,
\* with the same tape record, into another register, for Astra and for Trio.
C32_InPlaceTruncation ==
    [][OnlineStep("trunc") =>
        LET info == prog[pc + 1].tuples[1]
        IN (BigGap(info) /\ info.dst = info.src) => SameAsApart(info)]_vars

\* the same for Astra alone, whose masked value does not depend on the mask
\* limb
C32_AstraInPlace ==
    [][(OnlineStep("trunc") /\ proto = "astra") =>
        LET info == prog[pc + 1].tuples[1]
        IN (BigGap(info) /\ info.dst = info.src) => SameAsApart(info)]_vars

----------------------------------------------------------------------------
(* The second register of a two-register unsplit *)

\* the bit positions of an unsplit whose second register is not also the
\* first register of a later position
SecondOnly(op) ==
    {i \in 1..op.n : \A j \in 1..op.n : op.dst + j - 1 # op.dst2 + i - 1}

\* bit i of the masked value of the source, which both online parties hold
MaskedBit(q, op, i) == GetBit(M(BitFromRep3(proto, onB[q][op.src])), i - 1)

\* the preprocessing parties clear the second register of every position
PrepSecondCleared ==
    (ppc' = ppc + 1 /\ prog[ppc + 1].kind = "unsplit") =>
        \A i \in SecondOnly(prog[ppc + 1]), p \in PrepParties :
            prepS'[p][prog[ppc + 1].dst2 + i - 1] = Zero

\* C33: after a two-register unsplit the second register of every bit
\* position holds the masked bit under a zero mask on every party, the mask
\* limb 0 on both online parties and both limbs 0 on the helper, whatever the
\* register held before.
C33_SecondRegisterOverwritten ==
    [][/\ PrepSecondCleared
       /\ OnlineStep("unsplit") =>
              \A i \in SecondOnly(prog[pc + 1]), q \in OnlineParties :
                  onS'[q][prog[pc + 1].dst2 + i - 1] =
                      <<MaskedBit(q, prog[pc + 1], i), 0>>]_vars

\* what holds instead on the online parties: the masked bit in limb 0 and
\* the mask limb the register had before
C33_SecondKeepsMaskLimb ==
    [][/\ PrepSecondCleared
       /\ OnlineStep("unsplit") =>
              \A i \in SecondOnly(prog[pc + 1]), q \in OnlineParties :
                  onS'[q][prog[pc + 1].dst2 + i - 1] =
                      <<MaskedBit(q, prog[pc + 1], i),
                        onS[q][prog[pc + 1].dst2 + i - 1][2]>>]_vars

----------------------------------------------------------------------------
(* The generators of a shared seed stay in step *)

\* party i and party i - 1 have drawn equally often from the generators of
\* the seed they share in set g, and have drawn the same values
InStep(i, g) ==
    /\ prngPos[i][g][2] = prngPos[(i - 1) % 3][g][1]
    /\ Stream(i, g, 1) = Stream((i - 1) % 3, g, 0)

\* C34: after any sequence of preprocessing operations that the three
\* parties run in the same program order, for each of the three shared seeds
\* of every generator set the two parties that hold it have drawn the same
\* number of outputs, so that they have derived the same values from it.
C34_PrngAligned ==
    \A i \in PrepParties, g \in Gens : InStep(i, g)

\* the preprocessing has run an input, a product, a small-gap truncation
\* and a get_random: every seed of prng_protocol and a seed of
\* prng_protocol_for_input0 have been drawn from
C34_Witness ==
    /\ ppc = 4
    /\ prog[3].kind = "trunc" /\ prog[4].kind = "random"
    /\ \A i \in PrepParties : prngPos[i][0][1] > 0 /\ prngPos[i][0][2] > 0
    /\ prngPos[0][1][2] > 0
    /\ prngPos[0][0][1] # prngPos[1][0][1]

----------------------------------------------------------------------------
(* Streaming runs to completion *)

\* every process has run the whole program
StreamDone == \A proc \in Procs : place[proc].op = Len(prog)

\* C35: when the three preprocessing processes and the two online processes
\* run the same program side by side, the tapes and the output file being
\* named pipes of bounded capacity, no state short of completion is without
\* an enabled step, and under fair scheduling every blocked open, read, write
\* and receive is enabled in the end and all five processes finish.
C35_StreamingCompletes ==
    /\ [](StreamDone \/ ENABLED NextStream)
    /\ <>StreamDone

\* a program with an input, a product, a sync and a random share has been
\* run to its end by all five processes over the three pipes in use
C35_Witness ==
    /\ StreamDone
    /\ Len(prog) = 4 /\ prog[3].kind = "sync" /\ prog[1].kind = "input"
    /\ \A f \in {FileOf(PrepProc(1), "Protocol"), FileOf(PrepProc(2), "Protocol"),
                 FileOf(PrepProc(1), "Outputs")} :
           fifo[f].w = "open" /\ fifo[f].r = "open" /\ fifo[f].n = 0
    /\ \A link \in Procs \X Procs : net[link] = 0

----------------------------------------------------------------------------
(* The order of the results of a round *)

\* what the j-th prepared operation of a round computes: the dot products
\* in the order of their next_dotprod, then the plain products
PreparedValue(op, j) ==
    IF j <= Len(op.dots) THEN DotValue(op.dots[j])
    ELSE Mul(Open(op.pairs[j - Len(op.dots)][1]), Open(op.pairs[j - Len(op.dots)][2]))

\* the registers a round of n operations returns its results to
ResultRegs(op) == {r \in Regs : r >= op.dst /\ r < op.dst + RoundCount(op)}

\* the preprocessing parties return n results, the j-th with the mask of the
\* j-th entry of the record stored
PrepResultsInOrder ==
    (ppc' = ppc + 1 /\ prog[ppc + 1].kind = "round") =>
        LET op == prog[ppc + 1] IN
        \A q \in OnlineParties :
            /\ \A r \in Regs \ ResultRegs(op) : prepS'[q][r] = prepS[q][r]
            /\ \A j \in 1..RoundCount(op) :
                   prepS'[q][op.dst + j - 1][2] = tape'[q][Len(tape'[q])][2 * j]

\* the online parties return n results, the j-th with the mask of the j-th
\* tape entry and opening to what the j-th prepared operation computes
OnlineResultsInOrder ==
    OnlineStep("round") =>
        LET op == prog[pc + 1] IN
        /\ \A q \in OnlineParties :
               /\ \A r \in Regs \ ResultRegs(op) : onS'[q][r] = onS[q][r]
               /\ \A j \in 1..RoundCount(op) :
                      onS'[q][op.dst + j - 1][2] = NextRecord(q)[2 * j]
        /\ \A j \in 1..RoundCount(op) :
               OpenOf(proto, onS', op.dst + j - 1) = PreparedValue(op, j)

\* C36: in every round with n prepared operations every preprocessing and
\* online party has exactly n results after the exchange, and the j-th
\* finalize_mul or finalize_dotprod returns the result of the j-th prepared
\* operation.
C36_ResultsInOrder ==
    [][PrepResultsInOrder /\ OnlineResultsInOrder]_vars

\* the same for the rounds that do not hold dot products and plain products
\* together under Trio
C36_ExceptTrioMixed ==
    [][/\ PrepResultsInOrder
       /\ (proto = "trio" /\ pc < Len(prog) /\ prog[pc + 1].kind = "round"
               /\ IsMixed(prog[pc + 1]))
          \/ OnlineResultsInOrder]_vars


----------------------------------------------------------------------------
(* C37: sync hands over the vectors in the order of the calls *)

\* the number of sync calls among the first n instructions
SyncCalls(n) == Cardinality({k \in 1..n : prog[k].kind = "sync"})

\* the online party with P.my_num() = 0 makes its i-th call of sync: the
\* vector it passes becomes the i-th vector of the output file and the
\* vectors before it stay
OnlineSyncStep ==
    (pc' = pc + 1 /\ prog[pc + 1].kind = "sync") =>
        LET i == SyncCalls(pc + 1)
        IN /\ Len(outputs') = i
           /\ outputs'[i] = opened[1]
           /\ SubSeq(outputs', 1, i - 1) = outputs

\* the preprocessing parties make their i-th call of sync: the vector that
\* party 1 reads and sends to all, and that every party decodes, is the
\* i-th vector passed on the online side, in length and element by element
PrepSyncStep ==
    (ppc' = ppc + 1 /\ prog[ppc + 1].kind = "sync") =>
        LET i == SyncCalls(ppc + 1)
        IN /\ Len(view0') = i
           /\ i <= Len(outputs)
           /\ Len(view0'[i]) = Len(outputs[i])
           /\ \A e \in 1..Len(outputs[i]) : view0'[i][e] = outputs[i][e]
           /\ SubSeq(view0', 1, i - 1) = view0

----------------------------------------------------------------------------
(* C38 and C39: octetStream after a reset, and packed bits read back *)

\* C38: a reset stream behaves like a fresh one: after reset_write_head()
\* or clear(), every sequence of writes gives the same bytes as on a newly
\* constructed stream; bits stored before the reset and not flushed appear
\* in no byte written after it.
C38_ResetLikeFresh == stage = "reset" => stream.data = twin.data

\* a reset of a stream with no bits in the buffer of store_bits leaves it
\* in the state of a newly constructed stream
C38_CleanResetIsFresh ==
    [][(stage = "write" /\ stage' = "reset" /\ stream.bits[1] = BitBuffer)
          => stream' = twin']_vars

\* what the reader has to get for the i-th call of the writer
Expected(i) ==
    IF written[i].kind = "bits" THEN written[i].a % 2^(written[i].n)
    ELSE written[i].a

\* C39: bit-packing round trip: after store_bits(a_i, n_i) calls with
\* 1 <= n_i <= 7, interleaved with appends of whole bytes and ended by a
\* flush of the pending bits, the matching get_bits(n_i) calls and byte
\* reads return a_i mod 2^(n_i) and the bytes, in order, never run out of
\* data, and leave the read head at the end of what was written.
C39_BitRoundTrip ==
    /\ stage # "failed"
    /\ stage = "read" =>
        /\ Len(readback) <= Len(written)
        /\ \A i \in 1..Len(readback) : readback[i] = Expected(i)
        /\ Len(readback) = Len(written) => stream.ptr = Len(stream.data)

\* 3 and 4 bits packed into one byte and 5 bits into the next have been
\* read back
C39_Witness ==
    /\ stage = "read"
    /\ Len(written) = 3
    /\ Len(readback) = 3
    /\ \A i \in 1..3 : written[i].kind = "bits"
    /\ written[1].n = 3
    /\ written[2].n = 4
    /\ written[3].n = 5
    /\ readback[2] = 10
    /\ Len(stream.data) = 2
    /\ stream.ptr = 2

====
